---- MODULE Spec2Model ----
(***************************************************************************)
(* Model of the pylox resolver (src/pylox/resolver.py) and tree-walking    *)
(* interpreter (src/pylox/interpreter.py, callable.py, environment.py,     *)
(* loxclass.py) together with the two drivers that hand statement lists    *)
(* to them (PyLox.run and LoxInclude.call).                                *)
(*                                                                         *)
(* Tokens are represented by their lexeme; positions are not modelled.     *)
(* AST nodes are records tagged by "k"; the nodes the binding table is     *)
(* keyed on (Python id(node)) carry an explicit "id".                      *)
(***************************************************************************)
EXTENDS Integers, Sequences, FiniteSets, Bags, TLC

\* ------------------------------------------------------------------------
\* AST (tool/ast_generator.py, pylox/expr.py)
\* ------------------------------------------------------------------------
NoneNode == [k |-> "None"]

Literal(value) == [k |-> "Literal", value |-> value]

Variable(id, name) == [k |-> "Variable", id |-> id, name |-> name]

Assign(id, name, value) == [k |-> "Assign", id |-> id, name |-> name, value |-> value]

Binary(left, operator, right) == [k |-> "Binary", left |-> left, operator |-> operator, right |-> right]

Unary(operator, right) == [k |-> "Unary", operator |-> operator, right |-> right]

Grouping(expression) == [k |-> "Grouping", expression |-> expression]

Ternery(condition, then_expr, else_expr) == [k |-> "Ternery", condition |-> condition, then_expr |-> then_expr, else_expr |-> else_expr]

Logical(left, operator, right) == [k |-> "Logical", left |-> left, operator |-> operator, right |-> right]

Call(callee, arguments) == [k |-> "Call", callee |-> callee, arguments |-> arguments]

Function(params, body) == [k |-> "Function", params |-> params, body |-> body]

Get(object, name) == [k |-> "Get", object |-> object, name |-> name]

Set(object, name, value) == [k |-> "Set", object |-> object, name |-> name, value |-> value]

This(id) == [k |-> "This", id |-> id]

Super(id, method, superclass) == [k |-> "Super", id |-> id, method |-> method, superclass |-> superclass]

Expression(expression) == [k |-> "Expression", expression |-> expression]

If(condition, then_branch, else_branch) == [k |-> "If", condition |-> condition, then_branch |-> then_branch, else_branch |-> else_branch]

PrintStmt(expression) == [k |-> "Print", expression |-> expression]

While(condition, body) == [k |-> "While", condition |-> condition, body |-> body]

FunDef(name, function) == [k |-> "FunDef", name |-> name, function |-> function]

Var(name, initializer) == [k |-> "Var", name |-> name, initializer |-> initializer]

Block(statements) == [k |-> "Block", statements |-> statements]

Break == [k |-> "Break"]

Return(value) == [k |-> "Return", value |-> value]

Class(id, name, superclasses, methods, static_methods) == [k |-> "Class", id |-> id, name |-> name, superclasses |-> superclasses, methods |-> methods, static_methods |-> static_methods]

\* ------------------------------------------------------------------------
\* Runtime values
\* ------------------------------------------------------------------------
NilV == [t |-> "nil"]

BoolV(b) == [t |-> "bool", v |-> b]

\* A float is modelled as the exact fraction v / d in lowest terms, d > 0;
\* -0.0 is not told apart from 0.0.
NumV(n) == [t |-> "num", v |-> n, d |-> 1]

StrV(s) == [t |-> "str", v |-> s]

UNINITIALIZED == [t |-> "uninit"]

NativeV(name) == [t |-> "native", name |-> name]

\* ------------------------------------------------------------------------
\* Inputs: the statement lists the parser hands to the drivers, each with
\* its source text, and the files include() can open.
\* ------------------------------------------------------------------------
\* The files include() can open: file name -> parsed statement list.
Files ==
    \* print "in"; print -true; print "in2";
       ("bad" :> <<PrintStmt(Literal(StrV("in"))), PrintStmt(Unary("-", Literal(BoolV(TRUE)))), PrintStmt(Literal(StrV("in2")))>>)
    \* var v = 1; print v;
    @@ ("good" :> <<Var("v", Literal(NumV(1))), PrintStmt(Variable(1, "v"))>>)
    \* { var d = 1; var d = 2; print d; }
    @@ ("dup" :> <<Block(<<Var("d", Literal(NumV(1))), Var("d", Literal(NumV(2))), PrintStmt(Variable(1, "d"))>>)>>)
    \* { var w = 1; print w; }
    @@ ("loc" :> <<Block(<<Var("w", Literal(NumV(1))), PrintStmt(Variable(1, "w"))>>)>>)

\* The source texts given to the prompt, as the parser returns them.
\* Node ids number the nodes the resolver can bind, in parse order.
Programs ==
    <<
    \* 1:  var n = 0; while (n < 3) { n = n + 1; (fun () { break; })(); print n; } print "after";
    <<Var("n", Literal(NumV(0))), While(Binary(Variable(1, "n"), "<", Literal(NumV(3))), Block(<<Expression(Assign(2, "n", Binary(Variable(3, "n"), "+", Literal(NumV(1))))), Expression(Call(Grouping(Function(<<>>, <<Break>>)), <<>>)), PrintStmt(Variable(4, "n"))>>)), PrintStmt(Literal(StrV("after")))>>,
    \* 2:  var g; var c = true; while (c) { g = fun () { break; }; c = false; } g(); print "x";
    <<Var("g", NoneNode), Var("c", Literal(BoolV(TRUE))), While(Variable(1, "c"), Block(<<Expression(Assign(2, "g", Function(<<>>, <<Break>>))), Expression(Assign(3, "c", Literal(BoolV(FALSE))))>>)), Expression(Call(Variable(4, "g"), <<>>)), PrintStmt(Literal(StrV("x")))>>,
    \* 3:  print "a"; return 1; print "b";
    <<PrintStmt(Literal(StrV("a"))), Return(Literal(NumV(1))), PrintStmt(Literal(StrV("b")))>>,
    \* 4:  var i = 0; var j = 0; while (i < 2) { i = i + 1; j = 0; while (true) { j = j + 1; if (j > 1) break; print "in"; } print i; } print "end";
    <<Var("i", Literal(NumV(0))), Var("j", Literal(NumV(0))), While(Binary(Variable(1, "i"), "<", Literal(NumV(2))), Block(<<Expression(Assign(2, "i", Binary(Variable(3, "i"), "+", Literal(NumV(1))))), Expression(Assign(4, "j", Literal(NumV(0)))), While(Literal(BoolV(TRUE)), Block(<<Expression(Assign(5, "j", Binary(Variable(6, "j"), "+", Literal(NumV(1))))), If(Binary(Variable(7, "j"), ">", Literal(NumV(1))), Break, NoneNode), PrintStmt(Literal(StrV("in")))>>)), PrintStmt(Variable(8, "i"))>>)), PrintStmt(Literal(StrV("end")))>>,
    \* 5:  fun f() { while (true) { { return 7; } } print "no"; } { print f(); } print "z";
    <<FunDef("f", Function(<<>>, <<While(Literal(BoolV(TRUE)), Block(<<Block(<<Return(Literal(NumV(7)))>>)>>)), PrintStmt(Literal(StrV("no")))>>)), Block(<<PrintStmt(Call(Variable(1, "f"), <<>>))>>), PrintStmt(Literal(StrV("z")))>>,
    \* 6:  fun h() { if (true) { return; } print "no"; } print h();
    <<FunDef("h", Function(<<>>, <<If(Literal(BoolV(TRUE)), Block(<<Return(NoneNode)>>), NoneNode), PrintStmt(Literal(StrV("no")))>>)), PrintStmt(Call(Variable(1, "h"), <<>>))>>,
    \* 7:  print 1; { { print -true; } print 2; } print 3;
    <<PrintStmt(Literal(NumV(1))), Block(<<Block(<<PrintStmt(Unary("-", Literal(BoolV(TRUE))))>>), PrintStmt(Literal(NumV(2)))>>), PrintStmt(Literal(NumV(3)))>>,
    \* 8:  fun e() { { print 1 + nil; } } var m = 0; while (m < 1) { { e(); } m = m + 1; } print "no";
    <<FunDef("e", Function(<<>>, <<Block(<<PrintStmt(Binary(Literal(NumV(1)), "+", Literal(NilV)))>>)>>)), Var("m", Literal(NumV(0))), While(Binary(Variable(1, "m"), "<", Literal(NumV(1))), Block(<<Block(<<Expression(Call(Variable(2, "e"), <<>>))>>), Expression(Assign(3, "m", Binary(Variable(4, "m"), "+", Literal(NumV(1)))))>>)), PrintStmt(Literal(StrV("no")))>>,
    \* 9:  { var a = 1; print a; }
    <<Block(<<Var("a", Literal(NumV(1))), PrintStmt(Variable(1, "a"))>>)>>,
    \* 10:  var a = "g"; { var a = "l"; print a; }
    <<Var("a", Literal(StrV("g"))), Block(<<Var("a", Literal(StrV("l"))), PrintStmt(Variable(1, "a"))>>)>>,
    \* 11:  fun make() { var c = 0; fun inc() { c = c + 1; return c; } return inc; } var k = make(); print k(); print k();
    <<FunDef("make", Function(<<>>, <<Var("c", Literal(NumV(0))), FunDef("inc", Function(<<>>, <<Expression(Assign(1, "c", Binary(Variable(2, "c"), "+", Literal(NumV(1))))), Return(Variable(3, "c"))>>)), Return(Variable(4, "inc"))>>)), Var("k", Call(Variable(5, "make"), <<>>)), PrintStmt(Call(Variable(6, "k"), <<>>)), PrintStmt(Call(Variable(7, "k"), <<>>))>>,
    \* 12:  { var a = 1; var a = 2; print a; }
    <<Block(<<Var("a", Literal(NumV(1))), Var("a", Literal(NumV(2))), PrintStmt(Variable(1, "a"))>>)>>,
    \* 13:  fun p(x, x) { print x; } p(1, 2);
    <<FunDef("p", Function(<<"x", "x">>, <<PrintStmt(Variable(1, "x"))>>)), Expression(Call(Variable(2, "p"), <<Literal(NumV(1)), Literal(NumV(2))>>))>>,
    \* 14:  fun q(x) { var x = 1; print x; } q(2);
    <<FunDef("q", Function(<<"x">>, <<Var("x", Literal(NumV(1))), PrintStmt(Variable(1, "x"))>>)), Expression(Call(Variable(2, "q"), <<Literal(NumV(2))>>))>>,
    \* 15:  { var a = 1; fun a() { return 1; } print a; }
    <<Block(<<Var("a", Literal(NumV(1))), FunDef("a", Function(<<>>, <<Return(Literal(NumV(1)))>>)), PrintStmt(Variable(1, "a"))>>)>>,
    \* 16:  { var a = 1; { var a = 2; print a; } print a; }
    <<Block(<<Var("a", Literal(NumV(1))), Block(<<Var("a", Literal(NumV(2))), PrintStmt(Variable(1, "a"))>>), PrintStmt(Variable(2, "a"))>>)>>,
    \* 17:  class A { } print A;
    <<Class(1, "A", <<>>, <<>>, <<>>), PrintStmt(Variable(2, "A"))>>,
    \* 18:  { var a = 1; a = 2; }
    <<Block(<<Var("a", Literal(NumV(1))), Expression(Assign(1, "a", Literal(NumV(2))))>>)>>,
    \* 19:  var a = 1; a = a + 1; print a;
    <<Var("a", Literal(NumV(1))), Expression(Assign(1, "a", Binary(Variable(2, "a"), "+", Literal(NumV(1))))), PrintStmt(Variable(3, "a"))>>,
    \* 20:  print zz;
    <<PrintStmt(Variable(1, "zz"))>>,
    \* 21:  { var u = 1; print 5; }
    <<Block(<<Var("u", Literal(NumV(1))), PrintStmt(Literal(NumV(5)))>>)>>,
    \* 22:  print "s"; { var a = 1; var a = 2; print a; }
    <<PrintStmt(Literal(StrV("s"))), Block(<<Var("a", Literal(NumV(1))), Var("a", Literal(NumV(2))), PrintStmt(Variable(1, "a"))>>)>>,
    \* 23:  include("bad"); print "later"; print -nil; print "never";
    <<Expression(Call(Variable(1, "include"), <<Literal(StrV("bad"))>>)), PrintStmt(Literal(StrV("later"))), PrintStmt(Unary("-", Literal(NilV))), PrintStmt(Literal(StrV("never")))>>,
    \* 24:  { include("bad"); print "blk"; }
    <<Block(<<Expression(Call(Variable(1, "include"), <<Literal(StrV("bad"))>>)), PrintStmt(Literal(StrV("blk")))>>)>>,
    \* 25:  include("good"); print v;
    <<Expression(Call(Variable(1, "include"), <<Literal(StrV("good"))>>)), PrintStmt(Variable(2, "v"))>>,
    \* 26:  { include("good"); }
    <<Block(<<Expression(Call(Variable(1, "include"), <<Literal(StrV("good"))>>))>>)>>,
    \* 27:  include("dup"); print "after";
    <<Expression(Call(Variable(1, "include"), <<Literal(StrV("dup"))>>)), PrintStmt(Literal(StrV("after")))>>,
    \* 28:  include("nofile");
    <<Expression(Call(Variable(1, "include"), <<Literal(StrV("nofile"))>>))>>,
    \* 29:  include("loc");
    <<Expression(Call(Variable(1, "include"), <<Literal(StrV("loc"))>>))>>,
    \* 30:  var A = 1; { class B : A { } }
    <<Var("A", Literal(NumV(1))), Block(<<Class(1, "B", <<Variable(2, "A")>>, <<>>, <<>>)>>)>>,
    \* 31:  { var x = 1; class C { m() { return x; } static s() { return x; } } print C; }
    <<Block(<<Var("x", Literal(NumV(1))), Class(1, "C", <<>>, <<FunDef("m", Function(<<>>, <<Return(Variable(2, "x"))>>))>>, <<FunDef("s", Function(<<>>, <<Return(Variable(3, "x"))>>))>>), PrintStmt(Variable(4, "C"))>>)>>,
    \* 32:  { var C = 1; class C { } }
    <<Block(<<Var("C", Literal(NumV(1))), Class(1, "C", <<>>, <<>>, <<>>)>>)>>,
    \* 33:  { var a = a; }
    <<Block(<<Var("a", Variable(1, "a"))>>)>>,
    \* 34:  { var a = fun () { return a; }; a(); }
    <<Block(<<Var("a", Function(<<>>, <<Return(Variable(1, "a"))>>)), Expression(Call(Variable(2, "a"), <<>>))>>)>>,
    \* 35:  class C { m() { return this; } static s() { return this; } static t() { return fun () { return this; }; } }
    <<Class(1, "C", <<>>, <<FunDef("m", Function(<<>>, <<Return(This(2))>>))>>, <<FunDef("s", Function(<<>>, <<Return(This(3))>>)), FunDef("t", Function(<<>>, <<Return(Function(<<>>, <<Return(This(4))>>))>>))>>)>>,
    \* 36:  print this;
    <<PrintStmt(This(1))>>,
    \* 37:  class A { init() { print "A"; } } class B : A { } class C : B { } B(); C(); print "done";
    <<Class(1, "A", <<>>, <<FunDef("init", Function(<<>>, <<PrintStmt(Literal(StrV("A")))>>))>>, <<>>), Class(2, "B", <<Variable(3, "A")>>, <<>>, <<>>), Class(4, "C", <<Variable(5, "B")>>, <<>>, <<>>), Expression(Call(Variable(6, "B"), <<>>)), Expression(Call(Variable(7, "C"), <<>>)), PrintStmt(Literal(StrV("done")))>>,
    \* 38:  class A { init(x) { print x; } } class B : A { } B("one"); print "done";
    <<Class(1, "A", <<>>, <<FunDef("init", Function(<<"x">>, <<PrintStmt(Variable(2, "x"))>>))>>, <<>>), Class(3, "B", <<Variable(4, "A")>>, <<>>, <<>>), Expression(Call(Variable(5, "B"), <<Literal(StrV("one"))>>)), PrintStmt(Literal(StrV("done")))>>,
    \* 39:  class A { m() { return "A.m"; } } class B : A { m() { return super.m(); } } class C : B { } print B().m(); print C().m();
    <<Class(1, "A", <<>>, <<FunDef("m", Function(<<>>, <<Return(Literal(StrV("A.m")))>>))>>, <<>>), Class(2, "B", <<Variable(3, "A")>>, <<FunDef("m", Function(<<>>, <<Return(Call(Super(4, "m", ""), <<>>))>>))>>, <<>>), Class(5, "C", <<Variable(6, "B")>>, <<>>, <<>>), PrintStmt(Call(Get(Call(Variable(7, "B"), <<>>), "m"), <<>>)), PrintStmt(Call(Get(Call(Variable(8, "C"), <<>>), "m"), <<>>))>>,
    \* 40:  class A { m() { } } class B { } class C : A { m() { return super(B).m; } o() { return super(A).m; } }
    <<Class(1, "A", <<>>, <<FunDef("m", Function(<<>>, <<>>))>>, <<>>), Class(2, "B", <<>>, <<>>, <<>>), Class(3, "C", <<Variable(4, "A")>>, <<FunDef("m", Function(<<>>, <<Return(Super(5, "m", "B"))>>)), FunDef("o", Function(<<>>, <<Return(Super(6, "m", "A"))>>))>>, <<>>)>>,
    \* 41:  class B { n() { return super.m; } }
    <<Class(1, "B", <<>>, <<FunDef("n", Function(<<>>, <<Return(Super(2, "m", ""))>>))>>, <<>>)>>,
    \* 42:  class A { init() { return; } } class B { init() { } } print A() == A(); print B() == nil; print "done";
    <<Class(1, "A", <<>>, <<FunDef("init", Function(<<>>, <<Return(NoneNode)>>))>>, <<>>), Class(2, "B", <<>>, <<FunDef("init", Function(<<>>, <<>>))>>, <<>>), PrintStmt(Binary(Call(Variable(3, "A"), <<>>), "==", Call(Variable(4, "A"), <<>>))), PrintStmt(Binary(Call(Variable(5, "B"), <<>>), "==", Literal(NilV))), PrintStmt(Literal(StrV("done")))>>,
    \* 43:  fun c() { print "callee"; return g; } fun a1() { print "a1"; return 1; } fun a2() { print "a2"; return 2; } fun g(x, y) { print "body"; } c()(a1(), a2()); print "end";
    <<FunDef("c", Function(<<>>, <<PrintStmt(Literal(StrV("callee"))), Return(Variable(1, "g"))>>)), FunDef("a1", Function(<<>>, <<PrintStmt(Literal(StrV("a1"))), Return(Literal(NumV(1)))>>)), FunDef("a2", Function(<<>>, <<PrintStmt(Literal(StrV("a2"))), Return(Literal(NumV(2)))>>)), FunDef("g", Function(<<"x", "y">>, <<PrintStmt(Literal(StrV("body")))>>)), Expression(Call(Call(Variable(2, "c"), <<>>), <<Call(Variable(3, "a1"), <<>>), Call(Variable(4, "a2"), <<>>)>>)), PrintStmt(Literal(StrV("end")))>>,
    \* 44:  fun a1() { print "a1"; return 1; } fun a2() { print "a2"; return 2; } fun g(x, y) { print "body"; } g(a1(), a2(), a1()); print "no";
    <<FunDef("a1", Function(<<>>, <<PrintStmt(Literal(StrV("a1"))), Return(Literal(NumV(1)))>>)), FunDef("a2", Function(<<>>, <<PrintStmt(Literal(StrV("a2"))), Return(Literal(NumV(2)))>>)), FunDef("g", Function(<<"x", "y">>, <<PrintStmt(Literal(StrV("body")))>>)), Expression(Call(Variable(1, "g"), <<Call(Variable(2, "a1"), <<>>), Call(Variable(3, "a2"), <<>>), Call(Variable(4, "a1"), <<>>)>>)), PrintStmt(Literal(StrV("no")))>>,
    \* 45:  fun a1() { print "a1"; return 1; } fun a2() { print "a2"; return 2; } fun g(x, y) { print "body"; } "s"(a1(), a2()); print "no";
    <<FunDef("a1", Function(<<>>, <<PrintStmt(Literal(StrV("a1"))), Return(Literal(NumV(1)))>>)), FunDef("a2", Function(<<>>, <<PrintStmt(Literal(StrV("a2"))), Return(Literal(NumV(2)))>>)), FunDef("g", Function(<<"x", "y">>, <<PrintStmt(Literal(StrV("body")))>>)), Expression(Call(Literal(StrV("s")), <<Call(Variable(1, "a1"), <<>>), Call(Variable(2, "a2"), <<>>)>>)), PrintStmt(Literal(StrV("no")))>>,
    \* 46:  fun a1() { print "a1"; return 1; } fun a2() { print "a2"; return 2; } fun g(x, y) { print "body"; } type(a1(), a2()); print "no";
    <<FunDef("a1", Function(<<>>, <<PrintStmt(Literal(StrV("a1"))), Return(Literal(NumV(1)))>>)), FunDef("a2", Function(<<>>, <<PrintStmt(Literal(StrV("a2"))), Return(Literal(NumV(2)))>>)), FunDef("g", Function(<<"x", "y">>, <<PrintStmt(Literal(StrV("body")))>>)), Expression(Call(Variable(1, "type"), <<Call(Variable(2, "a1"), <<>>), Call(Variable(3, "a2"), <<>>)>>)), PrintStmt(Literal(StrV("no")))>>,
    \* 47:  { var a = 1; var a = 2; print a; } print this; { var u = 1; } { var b = b; print b; } { var w = 3; print w; }
    <<Block(<<Var("a", Literal(NumV(1))), Var("a", Literal(NumV(2))), PrintStmt(Variable(1, "a"))>>), PrintStmt(This(2)), Block(<<Var("u", Literal(NumV(1)))>>), Block(<<Var("b", Variable(3, "b")), PrintStmt(Variable(4, "b"))>>), Block(<<Var("w", Literal(NumV(3))), PrintStmt(Variable(5, "w"))>>)>>,
    \* 48:  var g; print g; print "no";
    <<Var("g", NoneNode), PrintStmt(Variable(1, "g")), PrintStmt(Literal(StrV("no")))>>,
    \* 49:  { var l; print l; } print "no";
    <<Block(<<Var("l", NoneNode), PrintStmt(Variable(1, "l"))>>), PrintStmt(Literal(StrV("no")))>>,
    \* 50:  zz = 1; print "no";
    <<Expression(Assign(1, "zz", Literal(NumV(1)))), PrintStmt(Literal(StrV("no")))>>,
    \* 51:  var a = 1; var b = 2; print a = 3; print a; print b;
    <<Var("a", Literal(NumV(1))), Var("b", Literal(NumV(2))), PrintStmt(Assign(1, "a", Literal(NumV(3)))), PrintStmt(Variable(2, "a")), PrintStmt(Variable(3, "b"))>>,
    \* 52:  { var a = 1; var b = 2; print a = 3; print a; print b; }
    <<Block(<<Var("a", Literal(NumV(1))), Var("b", Literal(NumV(2))), PrintStmt(Assign(1, "a", Literal(NumV(3)))), PrintStmt(Variable(2, "a")), PrintStmt(Variable(3, "b"))>>)>>
    >>

\* ------------------------------------------------------------------------
\* Resolver (pylox/resolver.py)
\* A resolver state r is a record
\*   scopes            stack of scopes, innermost last; a scope is the
\*                     insertion-ordered dict name -> VarState, kept as a
\*                     sequence of VarState records with distinct names
\*   current_class, current_function
\*   local_definitions the interpreter's binding table, id(node) -> <<depth, index>>;
\*                     id(node) is <<unit, node.id>>, unit numbering the parse
\*                     that created the node (each parse creates new objects)
\*   unit              the parse the resolved statements come from
\*   reports           what the error reporter received, had_error its flag
\* and a history field log: one event per resolve_stmt / resolve_expr call,
\* with the bookkeeping before and after it.
\* ------------------------------------------------------------------------
VarState(name, defined, used, local_index) == [name |-> name, defined |-> defined, used |-> used, local_index |-> local_index]

InScope(scope, name) == \E i \in 1..Len(scope) : scope[i].name = name

ScopeGet(scope, name) == scope[CHOOSE i \in 1..Len(scope) : scope[i].name = name]

ScopePut(scope, vs) ==
    IF InScope(scope, vs.name)
    THEN [i \in 1..Len(scope) |-> IF scope[i].name = vs.name THEN vs ELSE scope[i]]
    ELSE Append(scope, vs)

ReplaceLast(seq, x) == [seq EXCEPT ![Len(seq)] = x]

report_resolver(r, message, name) ==
    [r EXCEPT !.reports = Append(@, [typ |-> "Resolver", message |-> message, name |-> name]),
              !.had_error = TRUE]

InterpreterResolve(r, node, depth, index) ==
    [r EXCEPT !.local_definitions = (<<r.unit, node.id>> :> <<depth, index>>) @@ @]

begin_scope(r) == [r EXCEPT !.scopes = Append(@, <<>>)]

\* A Python local: the value is computed once, where the assignment stands,
\* and the code after it reads the local.
Bind(value, In(_)) == CHOOSE result \in {In(local) : local \in {value}} : TRUE

\* Expr.accept / Stmt.accept: the node calls the visitor's method for its
\* class, visitor.visit_<class>_<base>(self).
accept(visit(_, _), visitor, node) == visit(visitor, node)

RECURSIVE ReportUnused(_, _, _)
ReportUnused(r, scope, i) ==
    IF i > Len(scope) THEN r
    ELSE ReportUnused(IF ~scope[i].used
                      THEN report_resolver(r, "defined but never used", scope[i].name)
                      ELSE r,
                      scope, i + 1)

end_scope(r) ==
    LET scope == r.scopes[Len(r.scopes)]
        popped == [r EXCEPT !.scopes = SubSeq(@, 1, Len(@) - 1)]
    IN ReportUnused(popped, scope, 1)

\* A declare that also reports a name found in an enclosing scope.
declare_against_all_scopes(r, name) ==
    IF Len(r.scopes) = 0 THEN r
    ELSE LET scope == r.scopes[Len(r.scopes)]
             r1 == IF \E i \in 1..Len(r.scopes) : InScope(r.scopes[i], name)
                   THEN report_resolver(r, "already a variable with this name in this scope", name)
                   ELSE r
             idx == Len(scope)
         IN [r1 EXCEPT !.scopes = ReplaceLast(@, ScopePut(scope, VarState(name, FALSE, FALSE, idx)))]

declare(r, name) ==
    IF Len(r.scopes) = 0 THEN r
    ELSE LET scope == r.scopes[Len(r.scopes)]
             r1 == IF InScope(scope, name)
                   THEN report_resolver(r, "already a variable with this name in this scope", name)
                   ELSE r
             idx == Len(scope)
         IN [r1 EXCEPT !.scopes = ReplaceLast(@, ScopePut(scope, VarState(name, FALSE, FALSE, idx)))]

define(r, name) ==
    IF Len(r.scopes) = 0 THEN r
    ELSE LET scope == r.scopes[Len(r.scopes)]
         IN [r EXCEPT !.scopes = ReplaceLast(@, ScopePut(scope, [ScopeGet(scope, name) EXCEPT !.defined = TRUE]))]

\* Insert a synthetic entry ("this", "super") into the innermost scope.
ScopeSet(r, vs) ==
    [r EXCEPT !.scopes = ReplaceLast(@, ScopePut(@[Len(@)], vs))]

RECURSIVE ResolveLocalFrom(_, _, _, _)
ResolveLocalFrom(r, node, name, i) ==
    IF i >= Len(r.scopes) THEN r
    ELSE LET pos == Len(r.scopes) - i
             scope == r.scopes[pos]
         IN IF InScope(scope, name)
            THEN LET vs == ScopeGet(scope, name)
                     r1 == InterpreterResolve(r, node, i, vs.local_index)
                 IN [r1 EXCEPT !.scopes[pos] = ScopePut(scope, [vs EXCEPT !.used = TRUE])]
            ELSE ResolveLocalFrom(r, node, name, i + 1)

resolve_local(r, node, name) == ResolveLocalFrom(r, node, name, 0)

RECURSIVE resolve_stmt(_, _), resolve_expr(_, _), resolve_stmt_list(_, _, _), resolve_expr_list(_, _, _), resolve_function(_, _, _), DeclareParams(_, _, _), ResolveSuperclasses(_, _, _), ResolveMethods(_, _, _), ResolveStaticMethods(_, _, _)

\* A pass that ends with the first statement in which something was reported.
resolve_stmt_list_until_a_report(r, stmts, i) ==
    IF i > Len(stmts) THEN r
    ELSE Bind(resolve_stmt(r, stmts[i]), LAMBDA r1 :
              IF Len(r1.reports) > Len(r.reports) THEN r1
              ELSE resolve_stmt_list(r1, stmts, i + 1))

resolve_stmt_list(r, stmts, i) ==
    IF i > Len(stmts) THEN r
    ELSE Bind(resolve_stmt(r, stmts[i]), LAMBDA r1 :
              resolve_stmt_list(r1, stmts, i + 1))

resolve_expr_list(r, exprs, i) ==
    IF i > Len(exprs) THEN r
    ELSE Bind(resolve_expr(r, exprs[i]), LAMBDA r1 :
              resolve_expr_list(r1, exprs, i + 1))

DeclareParams(r, params, i) ==
    IF i > Len(params) THEN r
    ELSE Bind(define(declare(r, params[i]), params[i]), LAMBDA r1 :
              DeclareParams(r1, params, i + 1))

\* A resolve_function that leaves current_function as the body had it.
resolve_function_without_restoring(r, fun, typ) ==
    Bind(DeclareParams(begin_scope([r EXCEPT !.current_function = typ]), fun.params, 1), LAMBDA r2 :
    Bind(resolve_stmt_list(r2, fun.body, 1), LAMBDA r3 :
         end_scope(r3)))

resolve_function(r, fun, typ) ==
    Bind(DeclareParams(begin_scope([r EXCEPT !.current_function = typ]), fun.params, 1), LAMBDA r2 :
    Bind(resolve_stmt_list(r2, fun.body, 1), LAMBDA r3 :
    Bind(end_scope(r3), LAMBDA r4 :
         [r4 EXCEPT !.current_function = r.current_function])))

ResolveSuperclasses(r, klass, i) ==
    IF i > Len(klass.superclasses) THEN r
    ELSE LET superclass == klass.superclasses[i]
             r1 == IF superclass.name = klass.name
                   THEN report_resolver(r, "Can't inherit from itself", superclass.name)
                   ELSE r
         IN Bind(resolve_expr(r1, superclass), LAMBDA r2 :
                 ResolveSuperclasses(r2, klass, i + 1))

ResolveMethods(r, methods, i) ==
    IF i > Len(methods) THEN r
    ELSE LET typ == IF methods[i].name = "init" THEN "INITIALIZER" ELSE "METHOD"
         IN Bind(resolve_function(r, methods[i].function, typ), LAMBDA r1 :
                 ResolveMethods(r1, methods, i + 1))

ResolveStaticMethods(r, static_methods, i) ==
    IF i > Len(static_methods) THEN r
    ELSE Bind(resolve_function(r, static_methods[i].function, "STATICMETHOD"), LAMBDA r1 :
              ResolveStaticMethods(r1, static_methods, i + 1))

visit_class_stmt_resolver(r, klass) ==
    LET has_super == Len(klass.superclasses) > 0
    IN Bind(define(declare([r EXCEPT !.current_class = "CLASS"], klass.name), klass.name), LAMBDA r1 :
       Bind(resolve_local(r1, klass, klass.name), LAMBDA r2 :
       Bind(ResolveSuperclasses(r2, klass, 1), LAMBDA r3 :
       Bind(IF has_super
            THEN ScopeSet(begin_scope([r3 EXCEPT !.current_class = "SUBCLASS"]),
                          VarState("super", TRUE, TRUE, 0))
            ELSE r3, LAMBDA r4 :
       Bind(ScopeSet(begin_scope(r4), VarState("this", TRUE, TRUE, 0)), LAMBDA r5 :
       Bind(ResolveMethods(r5, klass.methods, 1), LAMBDA r6 :
       Bind(ResolveStaticMethods(r6, klass.static_methods, 1), LAMBDA r7 :
       Bind(end_scope(r7), LAMBDA r8 :
       Bind(IF has_super THEN end_scope(r8) ELSE r8, LAMBDA r9 :
       [r9 EXCEPT !.current_class = r.current_class])))))))))

visit_variable_expr_resolver(r, var) ==
    LET r1 == IF /\ Len(r.scopes) > 0
                 /\ InScope(r.scopes[Len(r.scopes)], var.name)
                 /\ ~ScopeGet(r.scopes[Len(r.scopes)], var.name).defined
              THEN report_resolver(r, "Can't read local variable in its own initializer", var.name)
              ELSE r
    IN resolve_local(r1, var, var.name)

visit_this_expr_resolver(r, this) ==
    IF r.current_class = "NONE"
    THEN report_resolver(r, "Can't use 'this' outside of a class", "this")
    ELSE IF r.current_function = "STATICMETHOD"
    THEN report_resolver(r, "Can't use 'this' in static methods", "this")
    ELSE resolve_local(r, this, "this")

visit_super_expr_resolver(r, supi) ==
    LET r1 == IF r.current_class # "SUBCLASS"
              THEN report_resolver(r, "Can't use 'super' outside of subclasses", "super")
              ELSE r
    IN resolve_local(r1, supi, "super")

visit_return_stmt_resolver(r, ret) ==
    IF ret.value.k # "None"
    THEN LET r1 == IF r.current_function = "INITIALIZER"
                   THEN report_resolver(r, "Can't return a value from initializer", "return")
                   ELSE r
         IN resolve_expr(r1, ret.value)
    ELSE r

visit_var_stmt_resolver(r, var) ==
    Bind(declare(r, var.name), LAMBDA r1 :
    Bind(IF var.initializer.k # "None" THEN resolve_expr(r1, var.initializer) ELSE r1, LAMBDA r2 :
         define(r2, var.name)))

visit_stmt_resolver(r, s) ==
    CASE s.k = "Block" ->
            Bind(resolve_stmt_list(begin_scope(r), s.statements, 1), LAMBDA r1 : end_scope(r1))
      [] s.k = "Var" -> visit_var_stmt_resolver(r, s)
      [] s.k = "FunDef" ->
            Bind(define(declare(r, s.name), s.name), LAMBDA r1 : resolve_expr(r1, s.function))
      [] s.k = "Break" -> r
      [] s.k = "Expression" -> resolve_expr(r, s.expression)
      [] s.k = "If" ->
            Bind(resolve_expr(r, s.condition), LAMBDA r1 :
            Bind(resolve_stmt(r1, s.then_branch), LAMBDA r2 :
                 IF s.else_branch.k # "None" THEN resolve_stmt(r2, s.else_branch) ELSE r2))
      [] s.k = "Print" -> resolve_expr(r, s.expression)
      [] s.k = "Return" -> visit_return_stmt_resolver(r, s)
      [] s.k = "While" ->
            Bind(resolve_expr(r, s.condition), LAMBDA r1 : resolve_stmt(r1, s.body))
      [] s.k = "Class" -> visit_class_stmt_resolver(r, s)

visit_expr_resolver(r, e) ==
    CASE e.k = "Variable" -> visit_variable_expr_resolver(r, e)
      [] e.k = "Assign" ->
            Bind(resolve_expr(r, e.value), LAMBDA r1 : resolve_local(r1, e, e.name))
      [] e.k = "Function" -> resolve_function(r, e, "FUNCTION")
      [] e.k = "Binary" ->
            Bind(resolve_expr(r, e.left), LAMBDA r1 : resolve_expr(r1, e.right))
      [] e.k = "Call" ->
            Bind(resolve_expr_list(r, e.arguments, 1), LAMBDA r1 : resolve_expr(r1, e.callee))
      [] e.k = "Grouping" -> resolve_expr(r, e.expression)
      [] e.k = "Literal" -> r
      [] e.k = "Logical" ->
            Bind(resolve_expr(r, e.left), LAMBDA r1 : resolve_expr(r1, e.right))
      [] e.k = "Ternery" ->
            Bind(resolve_expr(r, e.condition), LAMBDA r1 :
            Bind(resolve_expr(r1, e.then_expr), LAMBDA r2 : resolve_expr(r2, e.else_expr)))
      [] e.k = "Unary" -> resolve_expr(r, e.right)
      [] e.k = "Get" -> resolve_expr(r, e.object)
      [] e.k = "Set" ->
            Bind(resolve_expr(r, e.value), LAMBDA r1 : resolve_expr(r1, e.object))
      [] e.k = "This" -> visit_this_expr_resolver(r, e)
      [] e.k = "Super" -> visit_super_expr_resolver(r, e)

\* The names a node declares in the scope it is resolved in (the statements
\* whose visit calls __declare, directly or for a branch or body).
RECURSIVE DeclaredBy(_)
DeclaredBy(node) ==
    CASE node.k \in {"Var", "FunDef", "Class"} -> {node.name}
      [] node.k = "If" -> DeclaredBy(node.then_branch) \cup DeclaredBy(node.else_branch)
      [] node.k = "While" -> DeclaredBy(node.body)
      [] OTHER -> {}

\* The resolver's bookkeeping, and the record of one visit in the log.
Bookkeeping(r) ==
    [scopes |-> r.scopes, current_class |-> r.current_class, current_function |-> r.current_function]

Visited(r, node, r1) ==
    [r1 EXCEPT !.log = Append(@, [ev |-> "resolved", k |-> node.k,
                                  declares |-> DeclaredBy(node),
                                  before |-> Bookkeeping(r), after |-> Bookkeeping(r1),
                                  reports |-> Len(r.reports)])]

\* Resolver.resolve_stmt / resolve_expr: node.accept(self)
resolve_stmt(r, s) == Bind(accept(visit_stmt_resolver, r, s), LAMBDA r1 : Visited(r, s, r1))

resolve_expr(r, e) == Bind(accept(visit_expr_resolver, r, e), LAMBDA r1 : Visited(r, e, r1))

\* Resolver(interpreter, error_reporter): empty scope stack, flags NONE; the
\* binding table and the error reporter are the interpreter's.
Resolver(local_definitions, reports, had_error, unit) ==
    [scopes |-> <<>>, current_class |-> "NONE", current_function |-> "NONE",
     local_definitions |-> local_definitions, reports |-> reports, had_error |-> had_error,
     unit |-> unit, log |-> <<>>]

EmptyFcn == [x \in {} |-> 0]

\* ------------------------------------------------------------------------
\* Interpreter state threaded through evaluation.  A state s is a record
\*   global_environment  GlobalEnvironment.values (name -> value)
\*   heap                the Environment objects; heap[i] = [values, enclosing],
\*                       enclosing = 0 stands for None
\*   objects             the LoxClass / LoxInstance objects
\*   environment         Interpreter.environment (index into heap, 0 = None)
\*   local_definitions   Interpreter.local_definitions
\*   reports, had_error, had_runtime_error   the ErrorReporter
\*   out                 lines written by print
\*   nobj                number of callable objects allocated (object identity)
\*   unit, nparse        the parse the code being executed comes from, and
\*                       the number of parses so far
\* and history fields that only record what happened:
\*   log       events (variable accesses, block and call exits, caught breaks)
\*   depth     number of LoxFunction.call activations currently on the stack
\*   executed  number of statements passed to Interpreter.execute
\*   raised    value of executed when the last return statement raised
\*   failed    the last LoxRuntimeError raised: pending until an except clause
\*             catches it, and executed, length of reports and environment
\*             at the raise
\* An evaluation result is [s, sig, v]: sig is "ok" (v the value),
\* "error" (LoxRuntimeError, v the message), "break" (LoxBreak), "return"
\* (LoxReturn, v the value) or "crash" (any other Python exception, v its type).
\* ------------------------------------------------------------------------
Ok(s, v) == [s |-> s, sig |-> "ok", v |-> v]

LoxRuntimeError(s, message) ==
    [s |-> [s EXCEPT !.failed = [pending |-> TRUE, executed |-> s.executed,
                                 reports |-> Len(s.reports), environment |-> s.environment]],
     sig |-> "error", v |-> message]

NoFailure == [pending |-> FALSE, executed |-> 0, reports |-> 0, environment |-> 0]

Log(s, event) == [s EXCEPT !.log = Append(@, event)]

LoxBreak(s) == [s |-> s, sig |-> "break", v |-> s.depth]

LoxReturn(s, value) ==
    [s |-> Log([s EXCEPT !.raised = s.executed], [ev |-> "return", depth |-> s.depth, value |-> value]),
     sig |-> "return", v |-> value]

HostError(s, exception) == [s |-> s, sig |-> "crash", v |-> exception]

\* How a Python caller passes a name: a Token, a bare str, or None.
PyToken(lexeme) == [py |-> "Token", lexeme |-> lexeme]

PyStr(text) == [py |-> "str", lexeme |-> text]

PyNone == [py |-> "None", lexeme |-> ""]

LoxFunction(s, named, name, declaration, closure, is_initializer) ==
    Ok([s EXCEPT !.nobj = @ + 1],
       [t |-> "fun", oid |-> s.nobj + 1, named |-> named, name |-> name,
        declaration |-> declaration, unit |-> s.unit, closure |-> closure,
        is_initializer |-> is_initializer])

\* ------------------------------------------------------------------------
\* Environment (pylox/environment.py): values is a dict keyed by lexeme.
\* ------------------------------------------------------------------------
Environment(s, enclosing) ==
    [s EXCEPT !.heap = Append(@, [values |-> EmptyFcn, enclosing |-> enclosing])]

EnvironmentDefine(s, env, name, value) ==
    IF name.py # "Token"
    THEN HostError(s, "AttributeError")
    ELSE Ok([s EXCEPT !.heap[env].values = (name.lexeme :> value) @@ @], NilV)

RECURSIVE ancestor(_, _, _)
ancestor(s, env, distance) ==
    IF distance = 0 THEN Ok(s, env)
    ELSE IF s.heap[env].enclosing = 0
    THEN LoxRuntimeError(s, "This should not happen!! (inside Environment)")
    ELSE ancestor(s, s.heap[env].enclosing, distance - 1)

get_at(s, env, distance, name) ==
    LET a == ancestor(s, env, distance)
    IN IF a.sig # "ok" THEN a
       ELSE IF name \notin DOMAIN s.heap[a.v].values THEN HostError(s, "KeyError")
       ELSE Ok(s, s.heap[a.v].values[name])

assign_at(s, env, distance, name, value) ==
    LET a == ancestor(s, env, distance)
    IN IF a.sig # "ok" THEN a
       ELSE Ok([s EXCEPT !.heap[a.v].values = (name :> value) @@ @], NilV)

\* Number of parameters (after self) the methods are declared with.
GetAtParams == 2

AssignAtParams == 3

\* self.environment.get_at(*args): Python raises TypeError when the number
\* of positional arguments differs from the declared parameters.
CallGetAt(s, env, args) ==
    IF Len(args) # GetAtParams THEN HostError(s, "TypeError")
    ELSE get_at(s, env, args[1], args[2])

CallAssignAt(s, env, args) ==
    IF Len(args) # AssignAtParams THEN HostError(s, "TypeError")
    ELSE assign_at(s, env, args[1], args[2], args[3])

\* ------------------------------------------------------------------------
\* GlobalEnvironment (pylox/interpreter.py)
\* ------------------------------------------------------------------------
GlobalDefine(s, name, value) ==
    Ok([s EXCEPT !.global_environment = (name :> value) @@ @], NilV)

GlobalGet(s, name) ==
    IF name \in DOMAIN s.global_environment
    THEN IF s.global_environment[name] = UNINITIALIZED
         THEN LoxRuntimeError(s, "Uninitialized variable")
         ELSE Ok(s, s.global_environment[name])
    ELSE LoxRuntimeError(s, "Undefined variable")

GlobalAssign(s, name, value) ==
    IF name \in DOMAIN s.global_environment
    THEN Ok([s EXCEPT !.global_environment = (name :> value) @@ @], NilV)
    ELSE LoxRuntimeError(s, "Undefined variable")

\* ------------------------------------------------------------------------
\* Interpreter helpers (pylox/interpreter.py)
\* ------------------------------------------------------------------------
Bound(s, node) == <<s.unit, node.id>> \in DOMAIN s.local_definitions

Binding(s, node) == s.local_definitions[<<s.unit, node.id>>]

\* History record of one variable access: the frame that lies distance
\* links above the current one (0 if the chain is shorter) and whether that
\* frame holds the name.
RECURSIVE FrameAt(_, _, _)
FrameAt(s, env, distance) ==
    IF env = 0 THEN 0
    ELSE IF distance = 0 THEN env
    ELSE FrameAt(s, s.heap[env].enclosing, distance - 1)

\* The variables of a state: the global table and the values of every frame.
Variables(s) == [globals |-> s.global_environment, frames |-> [i \in DOMAIN s.heap |-> s.heap[i].values]]

\* What the variable a name denotes at a point of execution holds: the
\* nearest frame of the chain that has the name, else the global table.
RECURSIVE Denoted(_, _, _)
Denoted(s, env, name) ==
    IF env = 0
    THEN IF name \in DOMAIN s.global_environment
         THEN [scope |-> "global", env |-> 0, value |-> s.global_environment[name]]
         ELSE [scope |-> "none", env |-> 0, value |-> NilV]
    ELSE IF name \in DOMAIN s.heap[env].values
    THEN [scope |-> "local", env |-> env, value |-> s.heap[env].values[name]]
    ELSE Denoted(s, s.heap[env].enclosing, name)

AccessEvent(s, ev, name, expr, local, r) ==
    LET distance == IF local THEN Binding(s, expr)[1] ELSE 0
        target == IF local THEN FrameAt(s, s.environment, distance) ELSE 0
    IN [ev |-> ev, k |-> expr.k, id |-> expr.id, name |-> name, local |-> local,
        distance |-> distance,
        index |-> IF local THEN Binding(s, expr)[2] ELSE 0,
        environment |-> s.environment,
        target |-> target,
        declared |-> target # 0 /\ name \in DOMAIN s.heap[target].values,
        depth |-> s.depth,
        denoted |-> Denoted(s, s.environment, name),
        sig |-> r.sig,
        v |-> r.v]

lookup_variable(s, name, expr) ==
    LET local == Bound(s, expr) /\ s.environment # 0
        r == IF local
             THEN CallGetAt(s, s.environment, <<Binding(s, expr)[1], Binding(s, expr)[2], name>>)
             ELSE GlobalGet(s, name)
    IN [r EXCEPT !.s = Log(@, AccessEvent(s, "lookup", name, expr, local, r))]

assign_variable(s, name, expr, value) ==
    LET local == Bound(s, expr) /\ s.environment # 0
        r == IF local
             THEN CallAssignAt(s, s.environment,
                               <<Binding(s, expr)[1], Binding(s, expr)[2], name, value>>)
             ELSE GlobalAssign(s, name, value)
    IN [r EXCEPT !.s = Log(@, [value |-> value, before |-> Variables(s), after |-> Variables(r.s)]
                              @@ AccessEvent(s, "assign", name, expr, local, r))]

\* The truth value the host language gives an operand.
is_truthy_of_the_host(operand) ==
    ~(operand.t = "nil" \/ (operand.t = "bool" /\ ~operand.v)
      \/ (operand.t = "num" /\ operand.v = 0) \/ (operand.t = "str" /\ operand.v = ""))

is_truthy(operand) == ~(operand.t = "nil" \/ (operand.t = "bool" /\ ~operand.v))

\* Python ==: bool is a subclass of int, so True == 1.0 and False == 0.0.
PyNumber(value) == IF value.t = "bool" THEN NumV(IF value.v THEN 1 ELSE 0) ELSE value

is_equal(left, right) ==
    IF left.t \in {"num", "bool"} /\ right.t \in {"num", "bool"}
    THEN PyNumber(left) = PyNumber(right)
    ELSE IF left.t # right.t THEN FALSE
    ELSE left = right

RECURSIVE GCD(_, _)
GCD(a, b) == IF b = 0 THEN a ELSE GCD(b, a % b)

Abs(n) == IF n < 0 THEN 0 - n ELSE n

\* The float n / d, d # 0, in lowest terms
Fraction(n, d) ==
    LET g == GCD(Abs(n), Abs(d))
    IN [t |-> "num", v |-> (IF d < 0 THEN 0 - n ELSE n) \div g, d |-> Abs(d) \div g]

\* The first k digits after the decimal point of r / d, 0 <= r < d
RECURSIVE FractionDigits(_, _, _)
FractionDigits(r, d, k) ==
    IF r = 0 \/ k = 0 THEN ""
    ELSE ToString((10 * r) \div d) \o FractionDigits((10 * r) % d, d, k - 1)

\* str(float): "1.0" for an integral float, else the decimal expansion
\* (Python prints the shortest digits that read back as the same float;
\* the model prints up to 16 digits after the point).
FloatStr(n) ==
    IF n.d = 1 THEN ToString(n.v) \o ".0"
    ELSE (IF n.v < 0 THEN "-" ELSE "") \o ToString(Abs(n.v) \div n.d) \o "."
         \o FractionDigits(Abs(n.v) % n.d, n.d, 16)

stringify(value) ==
    CASE value.t = "nil" -> "nil"
      [] value.t = "bool" -> IF value.v THEN "True" ELSE "False"
      [] value.t = "num" -> FloatStr(value)
      [] value.t = "str" -> value.v
      [] value.t = "fun" -> IF value.named THEN "<fun " \o value.name \o ">" ELSE "<fun>"
      [] value.t = "native" -> "<native-fun: " \o value.name \o ">"
      [] value.t = "uninit" -> "<object object>"
      [] OTHER -> "<" \o value.t \o ">"

check_number_operand(s, operand) ==
    IF operand.t = "num" THEN Ok(s, NilV)
    ELSE LoxRuntimeError(s, "Operand must be a number.")

\* No test of its own: the host's arithmetic rejects the operands.
check_number_operands_left_to_host(s, left, right) ==
    IF left.t = "num" /\ right.t = "num" THEN Ok(s, NilV)
    ELSE HostError(s, "TypeError")

check_number_operands(s, left, right) ==
    IF left.t = "num" /\ right.t = "num" THEN Ok(s, NilV)
    ELSE LoxRuntimeError(s, "Both operands mus be numbers.")

\* A zero test that never finds a zero.
IsZeroNever(right) == FALSE

\* right == 0
IsZero(right) == right.v = 0

BinaryOp(s, operator, left, right) ==
    LET chk == check_number_operands(s, left, right)
    IN CASE operator = "==" -> Ok(s, BoolV(is_equal(left, right)))
         [] operator = "!=" -> Ok(s, BoolV(~is_equal(left, right)))
         [] operator = ">" -> IF chk.sig # "ok" THEN chk ELSE Ok(s, BoolV(left.v * right.d > right.v * left.d))
         [] operator = ">=" -> IF chk.sig # "ok" THEN chk ELSE Ok(s, BoolV(left.v * right.d >= right.v * left.d))
         [] operator = "<" -> IF chk.sig # "ok" THEN chk ELSE Ok(s, BoolV(left.v * right.d < right.v * left.d))
         [] operator = "<=" -> IF chk.sig # "ok" THEN chk ELSE Ok(s, BoolV(left.v * right.d <= right.v * left.d))
         [] operator = "+" ->
               IF left.t = "str" /\ right.t = "str" THEN Ok(s, StrV(left.v \o right.v))
               ELSE IF left.t = "num" /\ right.t = "num" THEN Ok(s, Fraction(left.v * right.d + right.v * left.d, left.d * right.d))
               ELSE IF left.t = "num" /\ right.t = "str" THEN Ok(s, StrV(FloatStr(left) \o right.v))
               ELSE IF left.t = "str" /\ right.t = "num" THEN Ok(s, StrV(left.v \o FloatStr(right)))
               ELSE LoxRuntimeError(s, "Both operands have to be strings or numbers.")
         [] operator = "-" -> IF chk.sig # "ok" THEN chk ELSE Ok(s, Fraction(left.v * right.d - right.v * left.d, left.d * right.d))
         [] operator = "*" -> IF chk.sig # "ok" THEN chk ELSE Ok(s, Fraction(left.v * right.v, left.d * right.d))
         [] operator = "/" ->
               IF chk.sig # "ok" THEN chk
               ELSE IF IsZero(right) THEN LoxRuntimeError(s, "Do not divide by zero!")
               ELSE IF right.v = 0 THEN HostError(s, "ZeroDivisionError")
               ELSE Ok(s, Fraction(left.v * right.d, left.d * right.v))
         [] OTHER -> Ok(s, NilV)


\* ------------------------------------------------------------------------
\* Classes and instances (pylox/loxclass.py).  objects[oid] is
\*   [kind |-> "class", name, superclasses, methods, fields, has_init]  or
\*   [kind |-> "instance", klass, fields]
\* ------------------------------------------------------------------------
LoxInstance(s, klass) ==
    Ok([s EXCEPT !.objects = Append(@, [kind |-> "instance", klass |-> klass, fields |-> EmptyFcn])],
       [t |-> "instance", oid |-> Len(s.objects) + 1])

LoxClass(s, name, superclasses, methods, static_methods) ==
    IF name.py # "Token"
    THEN HostError(s, "AttributeError")
    ELSE Ok([s EXCEPT !.objects = Append(@, [kind |-> "class", name |-> name.lexeme,
                                              superclasses |-> superclasses,
                                              methods |-> methods,
                                              fields |-> static_methods])],
            [t |-> "class", oid |-> Len(s.objects) + 1])

HasInitializer(s, klass) == "init" \in DOMAIN s.objects[klass.oid].methods

RECURSIVE find_method(_, _, _), FindMethodIn(_, _, _, _)
find_method(s, klass, name) ==
    IF name \in DOMAIN s.objects[klass.oid].methods
    THEN s.objects[klass.oid].methods[name]
    ELSE FindMethodIn(s, s.objects[klass.oid].superclasses, name, 1)

\* A search that goes through the superclasses from the last to the first.
FindMethodInFromLast(s, superclasses, name, i) ==
    IF i > Len(superclasses) THEN NilV
    ELSE LET method == find_method(s, superclasses[Len(superclasses) + 1 - i], name)
         IN IF method # NilV THEN method
            ELSE FindMethodIn(s, superclasses, name, i + 1)

FindMethodIn(s, superclasses, name, i) ==
    IF i > Len(superclasses) THEN NilV
    ELSE LET method == find_method(s, superclasses[i], name)
         IN IF method # NilV THEN method
            ELSE FindMethodIn(s, superclasses, name, i + 1)

RECURSIVE LoxClassGet(_, _, _, _), LoxClassGetIn(_, _, _, _)
LoxClassGet(s, klass, name, dont_raise_error) ==
    IF name \in DOMAIN s.objects[klass.oid].fields
    THEN Ok(s, s.objects[klass.oid].fields[name])
    ELSE LET static_method == LoxClassGetIn(s, s.objects[klass.oid].superclasses, name, 1)
         IN IF static_method # NilV THEN Ok(s, static_method)
            ELSE IF dont_raise_error THEN Ok(s, NilV)
            ELSE LoxRuntimeError(s, "Class has no static method")

\* A search of the static tables that goes through the superclasses from
\* the last to the first.
LoxClassGetInFromLast(s, superclasses, name, i) ==
    IF i > Len(superclasses) THEN NilV
    ELSE LET static_method == LoxClassGet(s, superclasses[Len(superclasses) + 1 - i], name, TRUE).v
         IN IF static_method # NilV THEN static_method
            ELSE LoxClassGetIn(s, superclasses, name, i + 1)

LoxClassGetIn(s, superclasses, name, i) ==
    IF i > Len(superclasses) THEN NilV
    ELSE LET static_method == LoxClassGet(s, superclasses[i], name, TRUE).v
         IN IF static_method # NilV THEN static_method
            ELSE LoxClassGetIn(s, superclasses, name, i + 1)

bind(s, function, instance) ==
    LET s1 == Environment(s, function.closure)
        env == Len(s1.heap)
        d == EnvironmentDefine(s1, env, PyNone, instance)
    IN IF d.sig # "ok" THEN d
       ELSE LoxFunction(d.s, function.named, function.name, function.declaration,
                        env, function.is_initializer)

LoxInstanceGet(s, obj, name) ==
    IF name \in DOMAIN s.objects[obj.oid].fields
    THEN Ok(s, s.objects[obj.oid].fields[name])
    ELSE LET method == find_method(s, s.objects[obj.oid].klass, name)
         IN IF method # NilV THEN bind(s, method, obj)
            ELSE LoxRuntimeError(s, "Undefined property")

LoxInstanceSet(s, obj, name, value) ==
    Ok([s EXCEPT !.objects[obj.oid].fields = (name :> value) @@ @], value)

\* ------------------------------------------------------------------------
\* Native functions (pylox/builtin.py).  Of the catalogue only the natives
\* below are modelled; time and input read the host clock and stdin.
\* ------------------------------------------------------------------------
NativeArity(name) ==
    CASE name = "type" -> 1
      [] name = "isinstance" -> 2
      [] name = "hasprop" -> 2
      [] name = "include" -> 1

FUNCTIONS == [name \in {"type", "isinstance", "hasprop", "include"} |-> NativeV(name)]

LoxType(arg) ==
    CASE arg.t = "str" -> StrV("string")
      [] arg.t = "num" -> StrV("number")
      [] arg.t = "fun" -> StrV("fun")
      [] arg.t = "class" -> StrV("class")
      [] arg.t = "instance" -> StrV("instance")
      [] OTHER -> StrV("unknown")

RECURSIVE is_sub_class(_, _, _), IsSubClassIn(_, _, _, _)
is_sub_class(s, sub, supi) ==
    IF sub = supi THEN TRUE
    ELSE IsSubClassIn(s, s.objects[sub.oid].superclasses, supi, 1)

IsSubClassIn(s, superclasses, supi, i) ==
    IF i > Len(superclasses) THEN FALSE
    ELSE IF is_sub_class(s, superclasses[i], supi) THEN TRUE
    ELSE IsSubClassIn(s, superclasses, supi, i + 1)

LoxIsinstance(s, inst, cls) ==
    IF inst.t \notin {"instance", "class"} \/ cls.t # "class" THEN BoolV(FALSE)
    ELSE BoolV(is_sub_class(s, IF inst.t = "class" THEN inst ELSE s.objects[inst.oid].klass, cls))

LoxHasprop(s, obj, prop) ==
    IF obj.t \notin {"instance", "class"} THEN BoolV(FALSE)
    ELSE IF prop.t # "str" THEN BoolV(FALSE)
    ELSE BoolV(prop.v \in DOMAIN s.objects[obj.oid].fields)

\* ------------------------------------------------------------------------
\* ErrorReporter (pylox/pylox.py)
\* ------------------------------------------------------------------------
report_runtime(s, message) ==
    [s EXCEPT !.had_runtime_error = TRUE,
              !.had_error = TRUE,
              !.reports = Append(@, [typ |-> "Runtime", message |-> message, name |-> ""])]

\* ------------------------------------------------------------------------
\* Evaluation (pylox/interpreter.py, pylox/callable.py, pylox/builtin.py)
\* ------------------------------------------------------------------------
RECURSIVE evaluate(_, _), execute(_, _), visit_block_stmt(_, _), ExecuteStatements(_, _, _), execute_block(_, _, _), interpret(_, _), EvaluateArguments(_, _, _, _), DefineParams(_, _, _, _, _), LoxFunctionCall(_, _, _), LoxClassCall(_, _, _), CallSuperInitializers(_, _, _, _, _), LoxIncludeCall(_, _), CallableCall(_, _, _), WhileLoop(_, _), visit_call_expr(_, _), visit_class_stmt(_, _), EvaluateSuperclasses(_, _, _, _, _), MakeMethods(_, _, _, _, _), visit_super_expr(_, _)

ExecuteStatements(s, statements, i) ==
    IF i > Len(statements) THEN Ok(s, NilV)
    ELSE Bind(execute(s, statements[i]), LAMBDA r :
              IF r.sig # "ok" THEN r
              ELSE ExecuteStatements(r.s, statements, i + 1))

\* An execute_block without the finally clause: the previous environment is
\* restored only when the statements complete.
execute_block_without_finally(s, statements, environment) ==
    Bind(ExecuteStatements([s EXCEPT !.environment = environment], statements, 1), LAMBDA r :
         LET previous_environment == s.environment
             restored == IF r.sig = "ok" THEN [r.s EXCEPT !.environment = previous_environment] ELSE r.s
         IN [r EXCEPT !.s = Log(restored, [ev |-> "block", before |-> previous_environment,
                                            frame |-> environment,
                                            parent |-> r.s.heap[environment].enclosing,
                                            after |-> restored.environment, sig |-> r.sig])])

\* An execute_block that leaves the frame for its parent (environment.enclosing)
\* instead of restoring the environment that was current before.
execute_block_leaving_to_parent(s, statements, environment) ==
    Bind(ExecuteStatements([s EXCEPT !.environment = environment], statements, 1), LAMBDA r :
         LET previous_environment == s.environment
             restored == [r.s EXCEPT !.environment = r.s.heap[environment].enclosing]
         IN [r EXCEPT !.s = Log(restored, [ev |-> "block", before |-> previous_environment,
                                            frame |-> environment,
                                            parent |-> r.s.heap[environment].enclosing,
                                            after |-> restored.environment, sig |-> r.sig])])

\* try: ... finally: self.environment = previous_environment
execute_block(s, statements, environment) ==
    Bind(ExecuteStatements([s EXCEPT !.environment = environment], statements, 1), LAMBDA r :
         LET previous_environment == s.environment
             restored == [r.s EXCEPT !.environment = previous_environment]
         IN [r EXCEPT !.s = Log(restored, [ev |-> "block", before |-> previous_environment,
                                            frame |-> environment,
                                            parent |-> r.s.heap[environment].enclosing,
                                            after |-> restored.environment, sig |-> r.sig])])

\* except errors.LoxRuntimeError: report_runtime.  The event records the
\* state the except clause found against the state at the raise.
Caught(s, entry, r, top) ==
    Log([report_runtime(r.s, r.v) EXCEPT !.failed = NoFailure],
        [ev |-> "interpret", top |-> top, entry |-> entry, exit |-> r.s.environment,
         sig |-> r.sig, raised_in |-> r.s.failed.environment,
         raised_executed |-> r.s.failed.executed, executed |-> r.s.executed,
         raised_reports |-> r.s.failed.reports,
         reports |-> Len(report_runtime(r.s, r.v).reports),
         kept |-> \A name \in DOMAIN s.global_environment :
                     name \in DOMAIN r.s.global_environment])

\* self.execute_block(stmt.statements, Environment(self.environment))
visit_block_stmt(s, stmt) ==
    LET s1 == Environment(s, s.environment)
        frame == Len(s1.heap)
    IN Bind(execute_block(s1, stmt.statements, frame), LAMBDA r :
            [r EXCEPT !.s = Log(@, [ev |-> "Block", before |-> s.environment,
                                    parent |-> s1.heap[frame].enclosing,
                                    fresh |-> frame > Len(s.heap) /\ DOMAIN s1.heap[frame].values = {},
                                    after |-> r.s.environment, sig |-> r.sig])])

interpret(s, statements) ==
    Bind(ExecuteStatements(s, statements, 1), LAMBDA r :
         IF r.sig = "error"
         THEN Ok(Caught(s, s.environment, r, FALSE), NilV)
         ELSE r)

\* The arguments evaluated from the last to the first.
EvaluateArgumentsFromLast(s, arguments, i, acc) ==
    IF i > Len(arguments) THEN Ok(s, acc)
    ELSE Bind(evaluate(s, arguments[Len(arguments) + 1 - i]), LAMBDA r :
              IF r.sig # "ok" THEN r
              ELSE EvaluateArguments(r.s, arguments, i + 1, <<r.v>> \o acc))

EvaluateArguments(s, arguments, i, acc) ==
    IF i > Len(arguments) THEN Ok(s, acc)
    ELSE Bind(evaluate(s, arguments[i]), LAMBDA r :
              IF r.sig # "ok" THEN r
              ELSE EvaluateArguments(r.s, arguments, i + 1, Append(acc, r.v)))

Arity(s, callee) ==
    CASE callee.t = "fun" -> Len(callee.declaration.params)
      [] callee.t = "native" -> NativeArity(callee.name)
      [] callee.t = "class" ->
            IF HasInitializer(s, callee)
            THEN Len(s.objects[callee.oid].methods["init"].declaration.params)
            ELSE 0

DefineParams(s, env, params, arguments, i) ==
    IF i > Len(arguments) THEN Ok(s, NilV)
    ELSE LET d == EnvironmentDefine(s, env, PyToken(params[i]), arguments[i])
         IN IF d.sig # "ok" THEN d
            ELSE DefineParams(d.s, env, params, arguments, i + 1)

\* The value an initializer yields: self.closure.get_at(0, 0, "this")
InitializerResult(s, function) ==
    IF function.closure = 0 THEN Ok(s, NilV)
    ELSE CallGetAt(s, function.closure, <<0, 0, "this">>)

LoxFunctionCall(s, function, arguments) ==
    LET s1 == Environment(s, function.closure)
        env == Len(s1.heap)
        d == DefineParams(s1, env, function.declaration.params, arguments, 1)
        entered == [d.s EXCEPT !.depth = @ + 1, !.unit = function.unit]
    IN IF d.sig # "ok" THEN d
       ELSE Bind(execute_block(entered, function.declaration.body, env), LAMBDA b :
            LET left == [b.s EXCEPT !.depth = s.depth, !.unit = s.unit]
                r == IF b.sig = "return"
                     THEN IF function.is_initializer THEN InitializerResult(left, function)
                          ELSE Ok(left, b.v)
                     ELSE IF b.sig = "ok"
                     THEN IF function.is_initializer THEN InitializerResult(left, function)
                          ELSE Ok(left, NilV)
                     ELSE [b EXCEPT !.s = left]
            IN [r EXCEPT !.s = Log(@, [ev |-> "call", before |-> s.environment,
                                       after |-> r.s.environment, body |-> b.sig,
                                       carried |-> IF b.sig = "return" THEN b.v ELSE NilV,
                                       unwound |-> b.sig = "return" => b.s.executed = b.s.raised,
                                       is_initializer |-> function.is_initializer,
                                       params |-> function.declaration.params,
                                       arguments |-> arguments,
                                       frame |-> d.s.heap[env].values,
                                       sig |-> r.sig, v |-> IF r.sig = "ok" THEN r.v ELSE NilV])])

CallSuperInitializers(s, klass, instance, arguments, i) ==
    LET superclasses == s.objects[klass.oid].superclasses
    IN IF i > Len(superclasses) THEN Ok(s, instance)
       ELSE IF ~HasInitializer(s, superclasses[i])
       THEN CallSuperInitializers(s, klass, instance, arguments, i + 1)
       ELSE LET initializer == s.objects[superclasses[i].oid].methods["init"]
            IN IF Len(initializer.declaration.params) # Len(arguments)
               THEN LoxRuntimeError(s, "Cannot initialize because the number of arguments doesn't fit")
               ELSE Bind(bind(s, initializer, instance), LAMBDA bound :
                    IF bound.sig # "ok" THEN bound
                    ELSE Bind(LoxFunctionCall(bound.s, bound.v, arguments), LAMBDA r :
                              IF r.sig # "ok" THEN r
                              ELSE CallSuperInitializers(r.s, klass, instance, arguments, i + 1)))

LoxClassCall(s, klass, arguments) ==
    LET i == LoxInstance(s, klass)
    IN IF HasInitializer(s, klass)
       THEN Bind(bind(i.s, s.objects[klass.oid].methods["init"], i.v), LAMBDA bound :
            IF bound.sig # "ok" THEN bound
            ELSE Bind(LoxFunctionCall(bound.s, bound.v, arguments), LAMBDA r :
                      IF r.sig # "ok" THEN r ELSE Ok(r.s, i.v)))
       ELSE CallSuperInitializers(i.s, klass, i.v, arguments, 1)

LoxIncludeCall(s, arguments) ==
    LET filename == arguments[1]
    IN IF filename.t # "str" THEN HostError(s, "TypeError")
       ELSE IF filename.v \notin DOMAIN Files THEN LoxRuntimeError(s, "File not found.")
       ELSE Bind(resolve_stmt_list(Resolver(s.local_definitions, s.reports, s.had_error, s.nparse + 1),
                                   Files[filename.v], 1), LAMBDA res :
            LET statements == Files[filename.v]
                unit == s.nparse + 1
                s1 == [s EXCEPT !.local_definitions = res.local_definitions,
                                !.reports = res.reports,
                                !.had_error = res.had_error,
                                !.nparse = unit,
                                !.log = @ \o Append(res.log, [ev |-> "pass", after |-> Bookkeeping(res)])]
                event(after) == [ev |-> "include", reported |-> Len(res.reports) > Len(s.reports),
                                 ran |-> after.executed - s.executed]
            IN IF s1.had_error
               THEN LoxRuntimeError(Log(s1, event(s1)), "Errors found in included file")
               ELSE Bind(interpret([s1 EXCEPT !.unit = unit], statements), LAMBDA r :
                         LET back == Log([r.s EXCEPT !.unit = s.unit], event(r.s))
                         IN IF r.sig # "ok" THEN [r EXCEPT !.s = back] ELSE Ok(back, NilV)))

CallableCall(s, callee, arguments) ==
    CASE callee.t = "fun" -> LoxFunctionCall(s, callee, arguments)
      [] callee.t = "class" -> LoxClassCall(s, callee, arguments)
      [] callee.t = "native" /\ callee.name = "type" -> Ok(s, LoxType(arguments[1]))
      [] callee.t = "native" /\ callee.name = "isinstance" -> Ok(s, LoxIsinstance(s, arguments[1], arguments[2]))
      [] callee.t = "native" /\ callee.name = "hasprop" -> Ok(s, LoxHasprop(s, arguments[1], arguments[2]))
      [] callee.t = "native" /\ callee.name = "include" -> LoxIncludeCall(s, arguments)

visit_call_expr(s, expr) ==
    Bind(evaluate(s, expr.callee), LAMBDA c :
         IF c.sig # "ok" THEN c
         ELSE Bind(EvaluateArguments(c.s, expr.arguments, 1, <<>>), LAMBDA a :
                   IF a.sig # "ok" THEN a
                   ELSE IF c.v.t \notin {"fun", "native", "class"}
                   THEN LoxRuntimeError(a.s, "Can only call functions and classes.")
                   ELSE IF Len(a.v) # Arity(a.s, c.v)
                   THEN LoxRuntimeError(a.s, "Expected " \o ToString(Arity(a.s, c.v)) \o " arguments, but got "
                                                \o ToString(Len(a.v)) \o ".")
                   ELSE CallableCall(a.s, c.v, a.v)))

\* expr.superclass is the lexeme of the named superclass, "" for None.
visit_super_expr(s, expr) ==
    IF s.environment = 0 \/ ~Bound(s, expr)
    THEN HostError(s, "RuntimeError")
    ELSE LET distance == Binding(s, expr)[1]
             mapping == CallGetAt(s, s.environment, <<distance, 0, "super">>)
             this == CallGetAt(s, s.environment, <<distance - 1, 0, "this">>)
         IN IF mapping.sig # "ok" THEN mapping
            ELSE IF this.sig # "ok" THEN this
            ELSE IF expr.superclass # "" /\ expr.superclass \notin DOMAIN mapping.v.v
            THEN LoxRuntimeError(s, "is not a superclass")
            ELSE LET superclass_index == IF expr.superclass # "" THEN mapping.v.v[expr.superclass] ELSE 0
                     superclasses == s.objects[s.objects[this.v.oid].klass.oid].superclasses
                     method == find_method(s, superclasses[superclass_index + 1], expr.method)
                 IN IF method = NilV
                    THEN LoxRuntimeError(s, "Class has no method")
                    ELSE bind(s, method, this.v)

\* A while statement whose except clause catches LoxReturn as well as LoxBreak.
WhileLoopCatchingReturn(s, stmt) ==
    LET caught(r) == Ok(Log(r.s, [ev |-> "break_caught", raised |-> s.depth, caught |-> s.depth]), NilV)
    IN Bind(evaluate(s, stmt.condition), LAMBDA c :
            IF c.sig \in {"break", "return"} THEN caught(c)
            ELSE IF c.sig # "ok" THEN c
            ELSE IF ~is_truthy(c.v) THEN Ok(c.s, NilV)
            ELSE Bind(execute(c.s, stmt.body), LAMBDA b :
                      IF b.sig \in {"break", "return"} THEN caught(b)
                      ELSE IF b.sig # "ok" THEN b
                      ELSE WhileLoop(b.s, stmt)))

\* except errors.LoxBreak: pass  -- wraps the condition as well as the body
WhileLoop(s, stmt) ==
    LET caught(r) == Ok(Log(r.s, [ev |-> "break_caught", raised |-> r.v, caught |-> s.depth]), NilV)
    IN Bind(evaluate(s, stmt.condition), LAMBDA c :
            IF c.sig = "break" THEN caught(c)
            ELSE IF c.sig # "ok" THEN c
            ELSE IF ~is_truthy(c.v) THEN Ok(c.s, NilV)
            ELSE Bind(execute(c.s, stmt.body), LAMBDA b :
                      IF b.sig = "break" THEN caught(b)
                      ELSE IF b.sig # "ok" THEN b
                      ELSE WhileLoop(b.s, stmt)))

Define(s, name, value) ==
    IF s.environment # 0 THEN EnvironmentDefine(s, s.environment, name, value)
    ELSE GlobalDefine(s, name.lexeme, value)

EvaluateSuperclasses(s, klass, i, superclasses, mapping) ==
    IF i > Len(klass.superclasses) THEN Ok(s, [superclasses |-> superclasses, mapping |-> mapping])
    ELSE Bind(evaluate(s, klass.superclasses[i]), LAMBDA r :
              IF r.sig # "ok" THEN r
              ELSE IF r.v.t # "class"
              THEN LoxRuntimeError(r.s, "is not a class. Can only inherit from class.")
              ELSE EvaluateSuperclasses(r.s, klass, i + 1, Append(superclasses, r.v),
                                        (klass.superclasses[i].name :> (i - 1)) @@ mapping))

MakeMethods(s, methods, i, acc, instance_methods) ==
    IF i > Len(methods) THEN Ok(s, acc)
    ELSE LET f == LoxFunction(s, TRUE, methods[i].name, methods[i].function, s.environment,
                              instance_methods /\ methods[i].name = "init")
         IN MakeMethods(f.s, methods, i + 1, (methods[i].name :> f.v) @@ acc, instance_methods)

visit_class_stmt(s, klass) ==
    LET has_super == Len(klass.superclasses) > 0
        logged(r) == [r EXCEPT !.s = Log(@, [ev |-> "Class", before |-> s.environment,
                                             after |-> r.s.environment, sig |-> r.sig])]
    IN Bind(EvaluateSuperclasses(s, klass, 1, <<>>, EmptyFcn), LAMBDA sup :
       IF sup.sig # "ok" THEN logged(sup)
       ELSE Bind(Define(sup.s, PyToken(klass.name), UNINITIALIZED), LAMBDA d :
       Bind(IF has_super
            THEN LET s1 == Environment(d.s, d.s.environment)
                     s2 == [s1 EXCEPT !.environment = Len(s1.heap)]
                 IN EnvironmentDefine(s2, s2.environment, PyNone, [t |-> "map", v |-> sup.v.mapping])
            ELSE Ok(d.s, NilV), LAMBDA dsuper :
       IF dsuper.sig # "ok" THEN logged(dsuper)
       ELSE Bind(MakeMethods(dsuper.s, klass.methods, 1, EmptyFcn, TRUE), LAMBDA methods :
       Bind(MakeMethods(methods.s, klass.static_methods, 1, EmptyFcn, FALSE), LAMBDA static_methods :
       Bind(LoxClass(IF has_super
                     THEN [static_methods.s EXCEPT !.environment = static_methods.s.heap[@].enclosing]
                     ELSE static_methods.s,
                     PyStr(klass.name), sup.v.superclasses, methods.v, static_methods.v), LAMBDA k :
       IF k.sig # "ok" THEN logged(k)
       ELSE logged(assign_variable(k.s, klass.name, klass, k.v))))))))

visit_expr(s, e) ==
    CASE e.k = "Literal" -> Ok(s, e.value)
      [] e.k = "Grouping" -> evaluate(s, e.expression)
      [] e.k = "Call" -> visit_call_expr(s, e)
      [] e.k = "Get" ->
            LET o == evaluate(s, e.object)
            IN IF o.sig # "ok" THEN o
               ELSE IF o.v.t = "instance" THEN LoxInstanceGet(o.s, o.v, e.name)
               ELSE IF o.v.t = "class" THEN LoxClassGet(o.s, o.v, e.name, FALSE)
               ELSE LoxRuntimeError(o.s, "Only class instances have properties.")
      [] e.k = "Set" ->
            LET o == evaluate(s, e.object)
                v == evaluate(o.s, e.value)
            IN IF o.sig # "ok" THEN o
               ELSE IF o.v.t = "instance"
               THEN IF v.sig # "ok" THEN v ELSE LoxInstanceSet(v.s, o.v, e.name, v.v)
               ELSE IF o.v.t = "class"
               THEN IF v.sig # "ok" THEN v
                    ELSE LoxRuntimeError(v.s, "Properties can only be defined on objects not on classes.")
               ELSE LoxRuntimeError(o.s, "Only instances of classes have fields.")
      [] e.k = "Function" -> LoxFunction(s, FALSE, "", e, s.environment, FALSE)
      [] e.k = "Unary" ->
            LET r == evaluate(s, e.right)
            IN IF r.sig # "ok" THEN r
               ELSE IF e.operator = "-"
               THEN LET chk == check_number_operand(r.s, r.v)
                    IN IF chk.sig # "ok" THEN chk ELSE Ok(r.s, [r.v EXCEPT !.v = 0 - @])
               ELSE IF e.operator = "!" THEN Ok(r.s, BoolV(~is_truthy(r.v)))
               ELSE Ok(r.s, NilV)
      [] e.k = "Binary" ->
            LET l == evaluate(s, e.left)
                r == evaluate(l.s, e.right)
            IN IF l.sig # "ok" THEN l
               ELSE IF r.sig # "ok" THEN r
               ELSE BinaryOp(r.s, e.operator, l.v, r.v)
      [] e.k = "Ternery" ->
            LET c == evaluate(s, e.condition)
            IN IF c.sig # "ok" THEN c
               ELSE IF is_truthy(c.v) THEN evaluate(c.s, e.then_expr)
               ELSE evaluate(c.s, e.else_expr)
      [] e.k = "Variable" -> lookup_variable(s, e.name, e)
      [] e.k = "Assign" ->
            LET v == evaluate(s, e.value)
                a == assign_variable(v.s, e.name, e, v.v)
            IN IF v.sig # "ok" THEN v
               ELSE IF a.sig # "ok" THEN a
               ELSE Ok(Log(a.s, [ev |-> "assigned", id |-> e.id, v |-> v.v]), v.v)
      [] e.k = "Logical" ->
            LET l == evaluate(s, e.left)
            IN IF l.sig # "ok" THEN l
               ELSE IF e.operator = "or" /\ is_truthy(l.v) THEN l
               ELSE IF e.operator # "or" /\ ~is_truthy(l.v) THEN l
               ELSE evaluate(l.s, e.right)
      [] e.k = "This" -> lookup_variable(s, "this", e)
      [] e.k = "Super" -> visit_super_expr(s, e)

visit_stmt(s, stmt) ==
    CASE stmt.k = "Expression" ->
            Bind(evaluate(s, stmt.expression), LAMBDA r :
                 IF r.sig # "ok" THEN r ELSE Ok(r.s, NilV))
      [] stmt.k = "If" ->
            Bind(evaluate(s, stmt.condition), LAMBDA c :
                 IF c.sig # "ok" THEN c
                 ELSE IF is_truthy(c.v) THEN execute(c.s, stmt.then_branch)
                 ELSE IF stmt.else_branch.k # "None" THEN execute(c.s, stmt.else_branch)
                 ELSE Ok(c.s, NilV))
      [] stmt.k = "While" -> WhileLoop(s, stmt)
      [] stmt.k = "Print" ->
            Bind(evaluate(s, stmt.expression), LAMBDA r :
                 IF r.sig # "ok" THEN r
                 ELSE Ok([r.s EXCEPT !.out = Append(@, stringify(r.v))], NilV))
      [] stmt.k = "Var" ->
            Bind(IF stmt.initializer.k # "None"
                 THEN evaluate(s, stmt.initializer)
                 ELSE Ok(s, UNINITIALIZED), LAMBDA r :
                 IF r.sig # "ok" THEN r
                 ELSE Define(r.s, PyToken(stmt.name), r.v))
      [] stmt.k = "FunDef" ->
            LET f == LoxFunction(s, TRUE, stmt.name, stmt.function, s.environment, FALSE)
            IN Define(f.s, PyToken(stmt.name), f.v)
      [] stmt.k = "Block" -> visit_block_stmt(s, stmt)
      [] stmt.k = "Break" -> LoxBreak(s)
      [] stmt.k = "Return" ->
            IF stmt.value.k = "None" THEN LoxReturn(s, NilV)
            ELSE Bind(evaluate(s, stmt.value), LAMBDA r :
                      IF r.sig # "ok" THEN r ELSE LoxReturn(r.s, r.v))
      [] stmt.k = "Class" -> visit_class_stmt(s, stmt)

\* Interpreter.evaluate: return expr.accept(self)
evaluate(s, e) == accept(visit_expr, s, e)

\* Interpreter.execute: stmt.accept(self)
execute(s, stmt) == accept(visit_stmt, [s EXCEPT !.executed = @ + 1], stmt)

\* Number of source texts one session of the prompt loop is given
MaxRuns == 2

\* ------------------------------------------------------------------------
\* State
\*   interpreter     the Interpreter object (and the objects it references)
\*   error_reporter  the ErrorReporter shared by all passes
\*   out             standard output of print statements
\*   history         history fields log, depth, executed (see above)
\*   pc              "prompt"    PyLox.run_prompt waits for a source text
\*                   "interpret" Interpreter.interpret is in its statement loop
\*                   "returned"  the run returned to run_prompt
\*                   "crashed"   a Python exception left the process
\*   path            "run" (PyLox.run) or "include" (LoxInclude.call)
\*   statements, position   the list interpret iterates over and its index
\*   exception       the exception that ended the process, "" if none
\*   runs            source texts taken so far
\* ------------------------------------------------------------------------
VARIABLES interpreter, error_reporter, out, history, pc, path, statements, position, exception, runs

vars == <<interpreter, error_reporter, out, history, pc, path, statements, position, exception, runs>>

State ==
    [global_environment |-> interpreter.global_environment,
     heap |-> interpreter.heap,
     objects |-> interpreter.objects,
     environment |-> interpreter.environment,
     local_definitions |-> interpreter.local_definitions,
     nobj |-> interpreter.nobj,
     unit |-> interpreter.unit,
     nparse |-> interpreter.nparse,
     reports |-> error_reporter.reports,
     had_error |-> error_reporter.had_error,
     had_runtime_error |-> error_reporter.had_runtime_error,
     out |-> out,
     log |-> history.log,
     depth |-> history.depth,
     executed |-> history.executed,
     raised |-> history.raised,
     failed |-> history.failed]

Store(s) ==
    /\ interpreter' = [global_environment |-> s.global_environment,
                       heap |-> s.heap,
                       objects |-> s.objects,
                       environment |-> s.environment,
                       local_definitions |-> s.local_definitions,
                       nobj |-> s.nobj,
                       unit |-> s.unit,
                       nparse |-> s.nparse]
    /\ error_reporter' = [reports |-> s.reports,
                          had_error |-> s.had_error,
                          had_runtime_error |-> s.had_runtime_error]
    /\ out' = s.out
    /\ history' = [log |-> s.log, depth |-> s.depth, executed |-> s.executed,
                   raised |-> s.raised, failed |-> s.failed]

Init ==
    /\ interpreter = [global_environment |-> FUNCTIONS,
                      heap |-> <<>>,
                      objects |-> <<>>,
                      environment |-> 0,
                      local_definitions |-> EmptyFcn,
                      nobj |-> 0,
                      unit |-> 0,
                      nparse |-> 0]
    /\ error_reporter = [reports |-> <<>>, had_error |-> FALSE, had_runtime_error |-> FALSE]
    /\ out = <<>>
    /\ history = [log |-> <<>>, depth |-> 0, executed |-> 0, raised |-> 0, failed |-> NoFailure]
    /\ pc = "prompt"
    /\ path = ""
    /\ statements = <<>>
    /\ position = 0
    /\ exception = ""
    /\ runs = 0

\* The state after the parser produced a new statement list; the history
\* fields and the report stream start afresh with every source text.
Parsed ==
    [State EXCEPT !.nparse = @ + 1, !.reports = <<>>, !.log = <<>>,
                  !.depth = 0, !.executed = 0, !.raised = 0, !.failed = NoFailure]

\* PyLox.run: parse, then interpret (no resolver pass on this path).
Run(p) ==
    /\ pc = "prompt"
    /\ runs < MaxRuns
    /\ statements' = Programs[p]
    /\ position' = 1
    /\ path' = "run"
    /\ pc' = IF error_reporter.had_error THEN "returned" ELSE "interpret"
    /\ runs' = runs + 1
    /\ Store([Parsed EXCEPT !.unit = Parsed.nparse])
    /\ UNCHANGED exception

\* LoxInclude.call for the top-level statement include(file): parse, resolve,
\* raise a runtime error if anything was reported, else interpret.
Include(p) ==
    /\ pc = "prompt"
    /\ runs < MaxRuns
    /\ \E res \in {resolve_stmt_list(Resolver(Parsed.local_definitions, Parsed.reports,
                                              Parsed.had_error, Parsed.nparse),
                                     Programs[p], 1)} :
          LET s1 == [Parsed EXCEPT !.local_definitions = res.local_definitions,
                                   !.reports = res.reports,
                                   !.had_error = res.had_error,
                                   !.unit = Parsed.nparse,
                                   !.log = Append(res.log, [ev |-> "pass", after |-> Bookkeeping(res)])]
          IN IF s1.had_error
             THEN /\ Store(Caught(s1, s1.environment,
                                  LoxRuntimeError(s1, "Errors found in included file"), TRUE))
                  /\ pc' = "returned"
             ELSE /\ Store(s1)
                  /\ pc' = "interpret"
    /\ statements' = Programs[p]
    /\ position' = 1
    /\ path' = "include"
    /\ runs' = runs + 1
    /\ UNCHANGED exception

\* One iteration of the statement loop of Interpreter.interpret, with its
\* except clause: a LoxRuntimeError is reported and ends the loop, any other
\* exception leaves interpret and, uncaught by the drivers, the process.
Execute ==
    /\ pc = "interpret"
    /\ position <= Len(statements)
    /\ \E r \in {execute(State, statements[position])} :
          CASE r.sig = "ok" ->
                  /\ Store(r.s)
                  /\ position' = position + 1
                  /\ UNCHANGED <<pc, exception>>
            [] r.sig = "error" ->
                  /\ Store(Caught(State, 0, r, TRUE))
                  /\ pc' = "returned"
                  /\ UNCHANGED <<position, exception>>
            [] r.sig = "break" ->
                  /\ Store(r.s)
                  /\ pc' = "crashed"
                  /\ exception' = "LoxBreak"
                  /\ UNCHANGED position
            [] r.sig = "return" ->
                  /\ Store(r.s)
                  /\ pc' = "crashed"
                  /\ exception' = "LoxReturn"
                  /\ UNCHANGED position
            [] r.sig = "crash" ->
                  /\ Store(r.s)
                  /\ pc' = "crashed"
                  /\ exception' = r.v
                  /\ UNCHANGED position
    /\ UNCHANGED <<path, statements, runs>>

\* The statement loop is exhausted: interpret returns normally.
Finish ==
    /\ pc = "interpret"
    /\ position > Len(statements)
    /\ pc' = "returned"
    /\ UNCHANGED <<interpreter, error_reporter, out, history, path, statements, position, exception, runs>>

\* PyLox.run_prompt after run(line): reset_errors, then read the next line.
ResetErrors ==
    /\ pc = "returned"
    /\ error_reporter' = [error_reporter EXCEPT !.had_error = FALSE, !.had_runtime_error = FALSE]
    /\ pc' = "prompt"
    /\ UNCHANGED <<interpreter, out, history, path, statements, position, exception, runs>>

Next ==
    \/ \E p \in 1..Len(Programs) : Run(p)
    \/ \E p \in 1..Len(Programs) : Include(p)
    \/ Execute
    \/ Finish
    \/ ResetErrors

Spec == Init /\ [][Next]_vars

\* ------------------------------------------------------------------------
\* Class objects on their own (pylox/loxclass.py).  Interpreter.visit_class_stmt
\* cannot build a class (it hands LoxClass a str where a Token is declared),
\* so the functions of LoxClass are exercised on classes constructed the way
\* the constructor's signature declares: LoxClass(name: Token, superclasses,
\* methods, static_methods), each stored in the global table under its name.
\*   pc   "classes"  class objects are being constructed
\*        "looked"   one function of the last class has been applied
\* ------------------------------------------------------------------------
\* Number of class objects constructed
MaxClasses == 3

ClassNames == <<"A", "B", "C", "D">>

MethodNames == {"m"}

\* The sequences without repetition over a set.
Arrangements(S) ==
    UNION {{f \in [1..k -> S] : \A i, j \in 1..k : i # j => f[i] # f[j]} : k \in 0..Cardinality(S)}

ClassInit ==
    /\ interpreter = [global_environment |-> FUNCTIONS,
                      heap |-> <<>>,
                      objects |-> <<>>,
                      environment |-> 0,
                      local_definitions |-> EmptyFcn,
                      nobj |-> 0,
                      unit |-> 0,
                      nparse |-> 0]
    /\ error_reporter = [reports |-> <<>>, had_error |-> FALSE, had_runtime_error |-> FALSE]
    /\ out = <<>>
    /\ history = [log |-> <<>>, depth |-> 0, executed |-> 0, raised |-> 0, failed |-> NoFailure]
    /\ pc = "classes"
    /\ path = "classes"
    /\ statements = <<>>
    /\ position = 0
    /\ exception = ""
    /\ runs = 0

\* The last class constructed, and the expression that names it.
LastClass == [t |-> "class", oid |-> Len(interpreter.objects)]

LastClassName == Variable(0, ClassNames[Len(interpreter.objects)])

\* The superclass expressions are evaluated, a LoxFunction is made for every
\* method and static method (its body returns the name of the declaring
\* class), LoxClass is constructed and bound to its name.
DeclareClass(superclasses, methods, static_methods) ==
    /\ pc = "classes"
    /\ Len(interpreter.objects) < MaxClasses
    /\ Len(interpreter.objects) < Len(ClassNames)
    /\ LET name == ClassNames[Len(interpreter.objects) + 1]
           method(m) == FunDef(m, Function(<<>>, <<Return(Literal(StrV(name)))>>))
           klass == Class(0, name,
                          [i \in DOMAIN superclasses |-> Variable(0, superclasses[i])],
                          [i \in DOMAIN methods |-> method(methods[i])],
                          [i \in DOMAIN static_methods |-> method(static_methods[i])])
           sup == EvaluateSuperclasses(State, klass, 1, <<>>, EmptyFcn)
           ms == MakeMethods(sup.s, klass.methods, 1, EmptyFcn, TRUE)
           ss == MakeMethods(ms.s, klass.static_methods, 1, EmptyFcn, FALSE)
           k == LoxClass(ss.s, PyToken(name), sup.v.superclasses, ms.v, ss.v)
           g == GlobalDefine(k.s, name, k.v)
       IN Store([g.s EXCEPT !.log = <<>>])
    /\ UNCHANGED <<pc, path, statements, position, exception, runs>>

\* klass.find_method(name) on the last class.
FindMethod(name) ==
    /\ pc = "classes"
    /\ Len(interpreter.objects) > 0
    /\ history' = [history EXCEPT !.log = <<[ev |-> "find_method", klass |-> LastClass.oid, name |-> name,
                                             v |-> find_method(State, LastClass, name)]>>]
    /\ pc' = "looked"
    /\ UNCHANGED <<interpreter, error_reporter, out, path, statements, position, exception, runs>>

\* Interpreter.visit_get_expr for `Class.name`.
GetStatic(name) ==
    /\ pc = "classes"
    /\ Len(interpreter.objects) > 0
    /\ \E r \in {evaluate(State, Get(LastClassName, name))} :
          Store([r.s EXCEPT !.log = <<[ev |-> "get", klass |-> LastClass.oid, name |-> name,
                                       sig |-> r.sig, v |-> r.v]>>])
    /\ pc' = "looked"
    /\ UNCHANGED <<path, statements, position, exception, runs>>

\* Interpreter.visit_set_expr for `Class.name = 1`.
SetStatic(name) ==
    /\ pc = "classes"
    /\ Len(interpreter.objects) > 0
    /\ \E r \in {evaluate(State, Set(LastClassName, name, Literal(NumV(1))))} :
          Store([r.s EXCEPT !.log = <<[ev |-> "set", klass |-> LastClass.oid, name |-> name,
                                       sig |-> r.sig, v |-> r.v,
                                       before |-> interpreter.objects, after |-> r.s.objects]>>])
    /\ pc' = "looked"
    /\ UNCHANGED <<path, statements, position, exception, runs>>

ClassNext ==
    \/ \E superclasses \in Arrangements({ClassNames[i] : i \in 1..Len(interpreter.objects)}) :
          \E methods \in Arrangements(MethodNames) :
             \E static_methods \in Arrangements(MethodNames) :
                DeclareClass(superclasses, methods, static_methods)
    \/ \E name \in MethodNames : FindMethod(name)
    \/ \E name \in MethodNames : GetStatic(name)
    \/ \E name \in MethodNames : SetStatic(name)

ClassSpec == ClassInit /\ [][ClassNext]_vars

\* ------------------------------------------------------------------------
\* Instances on their own (pylox/loxclass.py).  Classes are constructed as
\* above, in single-inheritance chains without static methods; then
\* instances of the last class are created by the statement
\* `var iN = Class();` and their properties are read and written through
\* Interpreter.visit_get_expr and visit_set_expr.
\*   pc   "classes"    class objects are being constructed
\*        "instances"  instances exist; no further class is declared
\*        "looked"     a property has been read
\* ------------------------------------------------------------------------
\* Number of instances created
MaxInstances == 2

InstanceNames == <<"i1", "i2", "i3">>

PropertyNames == {"m", "f"}

FieldNames == {"m"}

FieldValues == {NumV(1), NumV(2)}

Classes == {oid \in DOMAIN interpreter.objects : interpreter.objects[oid].kind = "class"}

Instances == {oid \in DOMAIN interpreter.objects : interpreter.objects[oid].kind = "instance"}

\* `var iN = Class();` for the class declared last
Instantiate ==
    /\ pc \in {"classes", "instances"}
    /\ Classes # {}
    /\ Cardinality(Instances) < MaxInstances
    /\ Cardinality(Instances) < Len(InstanceNames)
    /\ \E r \in {execute(State, Var(InstanceNames[Cardinality(Instances) + 1],
                                    Call(Variable(0, ClassNames[Cardinality(Classes)]), <<>>)))} :
          /\ Store([r.s EXCEPT !.log = <<>>, !.executed = 0])
          /\ pc' = IF r.sig = "ok" THEN "instances" ELSE "crashed"
    /\ UNCHANGED <<path, statements, position, exception, runs>>

\* Interpreter.visit_get_expr for `iN.name`.
GetProperty(i, name) ==
    /\ pc = "instances"
    /\ i <= Cardinality(Instances)
    /\ \E r \in {evaluate(State, Get(Variable(0, InstanceNames[i]), name))} :
          Store([r.s EXCEPT !.log = <<[ev |-> "get_property", instance |-> State.global_environment[InstanceNames[i]],
                                       name |-> name, sig |-> r.sig, v |-> r.v,
                                       before |-> interpreter.objects]>>])
    /\ pc' = "looked"
    /\ UNCHANGED <<path, statements, position, exception, runs>>

\* Interpreter.visit_set_expr for `iN.name = value`.
SetProperty(i, name, value) ==
    /\ pc = "instances"
    /\ i <= Cardinality(Instances)
    /\ \E r \in {evaluate(State, Set(Variable(0, InstanceNames[i]), name, Literal(value)))} :
          Store([r.s EXCEPT !.log = <<[ev |-> "set_property", instance |-> State.global_environment[InstanceNames[i]],
                                       name |-> name, value |-> value, sig |-> r.sig, v |-> r.v,
                                       before |-> interpreter.objects]>>])
    /\ UNCHANGED <<pc, path, statements, position, exception, runs>>

InstanceNext ==
    \/ \E superclasses \in {<<>>} \cup {<<ClassNames[i]>> : i \in {Len(interpreter.objects)} \cap Classes} :
          \E methods \in Arrangements(MethodNames) :
             DeclareClass(superclasses, methods, <<>>)
    \/ Instantiate
    \/ \E i \in 1..MaxInstances : \E name \in PropertyNames : GetProperty(i, name)
    \/ \E i \in 1..MaxInstances : \E name \in FieldNames : \E value \in FieldValues : SetProperty(i, name, value)

InstanceSpec == ClassInit /\ [][InstanceNext]_vars

\* ------------------------------------------------------------------------
\* Operators on their own (Interpreter.visit_binary_expr, visit_unary_expr).
\* The operands are literals and the values of global variables: a native
\* function, a function f that prints "f" and returns "r", classes and
\* instances constructed as above.
\*   pc   "classes", "instances"  as above
\*        "applied"               an operator has been applied
\* ------------------------------------------------------------------------
BinaryOperators == {"==", "!=", "<", "<=", ">", ">=", "+", "-", "*", "/"}

UnaryOperators == {"-", "!"}

OperandLiterals ==
    {NilV, BoolV(TRUE), BoolV(FALSE), NumV(0), NumV(1), NumV(2), NumV(0 - 1),
     StrV(""), StrV("a"), StrV("1")}

OperandNames == {"type", "f", "A", "B", "i1", "i2"}

Operands ==
    OperandLiterals
    \cup {interpreter.global_environment[name] : name \in OperandNames \cap DOMAIN interpreter.global_environment}

\* `fun f() { print "f"; return "r"; }`
DeclareFunction ==
    /\ pc \in {"classes", "instances"}
    /\ "f" \notin DOMAIN interpreter.global_environment
    /\ \E r \in {execute(State, FunDef("f", Function(<<>>, <<PrintStmt(Literal(StrV("f"))), Return(Literal(StrV("r")))>>)))} :
          Store([r.s EXCEPT !.log = <<>>, !.executed = 0])
    /\ UNCHANGED <<pc, path, statements, position, exception, runs>>

\* Interpreter.visit_binary_expr for `left operator right`
ApplyBinary(operator, left, right) ==
    /\ pc \in {"classes", "instances"}
    /\ \E r \in {evaluate(State, Binary(Literal(left), operator, Literal(right)))} :
          Store([r.s EXCEPT !.log = <<[ev |-> "binary", operator |-> operator, left |-> left,
                                       right |-> right, sig |-> r.sig, v |-> r.v]>>])
    /\ pc' = "applied"
    /\ UNCHANGED <<path, statements, position, exception, runs>>

\* Interpreter.visit_unary_expr for `operator right`
ApplyUnary(operator, right) ==
    /\ pc \in {"classes", "instances"}
    /\ \E r \in {evaluate(State, Unary(operator, Literal(right)))} :
          Store([r.s EXCEPT !.log = <<[ev |-> "unary", operator |-> operator,
                                       right |-> right, sig |-> r.sig, v |-> r.v]>>])
    /\ pc' = "applied"
    /\ UNCHANGED <<path, statements, position, exception, runs>>

\* Interpreter.visit_logical_expr for `left operator f()`
ApplyLogical(operator, left) ==
    /\ pc \in {"classes", "instances"}
    /\ "f" \in DOMAIN interpreter.global_environment
    /\ \E r \in {evaluate(State, Logical(Literal(left), operator, Call(Variable(0, "f"), <<>>)))} :
          Store([r.s EXCEPT !.log = <<[ev |-> "logical", operator |-> operator, left |-> left,
                                       sig |-> r.sig, v |-> r.v, printed |-> Len(r.s.out) - Len(out)]>>])
    /\ pc' = "applied"
    /\ UNCHANGED <<path, statements, position, exception, runs>>

\* Interpreter.visit_ternery_expr for `condition ? f() : -nil`, and for
\* `condition ? -nil : f()` if flipped
ApplyTernery(condition, flipped) ==
    /\ pc \in {"classes", "instances"}
    /\ "f" \in DOMAIN interpreter.global_environment
    /\ LET call == Call(Variable(0, "f"), <<>>)
           fails == Unary("-", Literal(NilV))
       IN \E r \in {evaluate(State, IF flipped THEN Ternery(Literal(condition), fails, call)
                                               ELSE Ternery(Literal(condition), call, fails))} :
             Store([r.s EXCEPT !.log = <<[ev |-> "ternery", condition |-> condition, flipped |-> flipped,
                                          sig |-> r.sig, v |-> r.v, printed |-> Len(r.s.out) - Len(out)]>>])
    /\ pc' = "applied"
    /\ UNCHANGED <<path, statements, position, exception, runs>>

OperatorNext ==
    \/ DeclareClass(<<>>, <<>>, <<>>)
    \/ Instantiate
    \/ DeclareFunction
    \/ \E operator \in BinaryOperators : \E left, right \in Operands : ApplyBinary(operator, left, right)
    \/ \E operator \in UnaryOperators : \E right \in Operands : ApplyUnary(operator, right)
    \/ \E operator \in {"or", "and"} : \E left \in Operands : ApplyLogical(operator, left)
    \/ \E condition \in Operands : \E flipped \in BOOLEAN : ApplyTernery(condition, flipped)

OperatorSpec == ClassInit /\ [][OperatorNext]_vars

\* ------------------------------------------------------------------------
\* Properties
\* ------------------------------------------------------------------------
LogEvents(kinds) == {history.log[i] : i \in {j \in DOMAIN history.log : history.log[j].ev \in kinds}}

\* The resolver, run on its own over a statement list, reports something.
ResolverRejects(program) ==
    resolve_stmt_list(Resolver(EmptyFcn, <<>>, FALSE, 0), program, 1).had_error

\* C1: every reference the resolver bound to (depth, slot) reads or writes,
\* when it is evaluated, the variable of the declaration it was matched to:
\* the access completes, and the frame `depth` links up holds that name.
C1_BoundReferenceReachesItsDeclaration ==
    \A e \in LogEvents({"lookup", "assign"}) :
        e.local => e.sig = "ok" /\ e.target # 0 /\ e.declared

\* C2: resolver and interpreter nest scopes in lockstep: a bound reference
\* finds a frame `depth` links up that holds its declaration, and a class
\* declaration builds the class whose method bodies were resolved against
\* the `this` / `super` scopes.
C2_ScopesNestInLockstep ==
    /\ \A e \in LogEvents({"lookup", "assign"}) : e.local => e.target # 0 /\ e.declared
    /\ \A e \in LogEvents({"Class"}) : e.sig # "crash"

\* C3: a program for which the resolver reports an error has none of its
\* statements executed, on the run path and for an included file alike.
C3_RejectedProgramIsNotInterpreted ==
    /\ ResolverRejects(statements) => history.executed = 0
    /\ \A e \in LogEvents({"include"}) : e.reported => e.ran = 0

\* C4: for a statement list the resolver accepts, a return or break signal
\* never leaves interpret.
C4_ControlSignalsStayInsideInterpret ==
    (pc = "crashed" /\ ~ResolverRejects(statements)) => exception \notin {"LoxBreak", "LoxReturn"}

C6_BreakEndsItsLexicalLoop ==
    \A e \in LogEvents({"break_caught"}) : e.raised = e.caught

\* The index of the last return statement executed before log entry i.
LastReturnBefore(i) ==
    CHOOSE j \in 1..(i - 1) :
        /\ history.log[j].ev = "return"
        /\ \A k \in (j + 1)..(i - 1) : history.log[k].ev # "return"

\* C7: a return executed inside a function body ends exactly one call, the
\* one whose body it is in: every return raised inside an activation is
\* received by a call, no statement runs between the raise and the end of
\* the call, the call yields the returned value (nil for a bare return),
\* and the caller's environment is current again.
C7_ReturnEndsExactlyItsCall ==
    /\ \A i \in DOMAIN history.log :
          (history.log[i].ev = "call" /\ history.log[i].body = "return") =>
              /\ history.log[i].sig = "ok"
              /\ history.log[i].unwound
              /\ history.log[i].after = history.log[i].before
              /\ \E j \in 1..(i - 1) : history.log[j].ev = "return"
              /\ history.log[i].v = history.log[LastReturnBefore(i)].value
    /\ Cardinality({i \in DOMAIN history.log :
                       history.log[i].ev = "return" /\ history.log[i].depth > 0})
       = Cardinality({i \in DOMAIN history.log :
                         history.log[i].ev = "call" /\ history.log[i].body = "return"})

\* A call ended by a return from inside a loop and a block, yielding 7, and
\* (another run) a call ended by a bare return, yielding nil.
C7_Witness ==
    \E e \in LogEvents({"call"}) :
        e.body = "return" /\ e.sig = "ok" /\ e.v = NumV(7) /\ e.before # 0

\* C8: a Block, a function body and a class declaration leave the
\* interpreter's environment as they found it on every exit path, and a
\* Block runs its statements in a fresh frame whose parent is the
\* environment that was current before.
C8_BlockRestoresTheEnvironment ==
    /\ \A e \in LogEvents({"block", "call", "Class"}) : e.after = e.before
    /\ \A e \in LogEvents({"Block"}) : e.after = e.before /\ e.parent = e.before /\ e.fresh

\* Blocks were left by a runtime error and by a return, and a call inside a
\* block has ended.
C8_Witness ==
    /\ \E e \in LogEvents({"Block"}) : e.sig \in {"error", "return", "break"} /\ e.before # 0
    /\ \E e \in LogEvents({"call"}) : e.before # 0

\* C9: a function returned from another function still reads and writes the
\* outer function's local after the outer call returned: the counter made
\* by program 11 yields 1, then 2.
C9_ClosureKeepsItsDefiningFrame ==
    (statements = Programs[11] /\ pc \in {"returned", "crashed"}) =>
        /\ pc = "returned"
        /\ ~error_reporter.had_runtime_error
        /\ Len(out) >= 2
        /\ SubSeq(out, Len(out) - 1, Len(out)) = <<"1.0", "2.0">>

\* Number of declarations that repeat a name already declared in the same
\* local scope, counted on the syntax tree.  A scope is [local, names]:
\* a Block starts a scope, a function one for its parameters and its body,
\* and at top level (local = FALSE) nothing is recorded.
RECURSIVE DuplicatesInStmt(_, _), DuplicatesInList(_, _, _), DuplicatesInExpr(_), DuplicatesInExprs(_, _), DuplicatesInFunction(_), DuplicatesInMethods(_, _), RepeatedParams(_, _, _)

Declared(scope, name, more) ==
    [scope |-> IF scope.local THEN [scope EXCEPT !.names = @ \cup {name}] ELSE scope,
     n |-> more + IF scope.local /\ name \in scope.names THEN 1 ELSE 0]

RepeatedParams(params, i, names) ==
    IF i > Len(params) THEN [names |-> names, n |-> 0]
    ELSE LET rest == RepeatedParams(params, i + 1, names \cup {params[i]})
         IN [names |-> rest.names, n |-> rest.n + IF params[i] \in names THEN 1 ELSE 0]

DuplicatesInFunction(fun) ==
    LET params == RepeatedParams(fun.params, 1, {})
    IN params.n + DuplicatesInList(fun.body, 1, [local |-> TRUE, names |-> params.names]).n

DuplicatesInMethods(methods, i) ==
    IF i > Len(methods) THEN 0
    ELSE DuplicatesInFunction(methods[i].function) + DuplicatesInMethods(methods, i + 1)

DuplicatesInExprs(exprs, i) ==
    IF i > Len(exprs) THEN 0
    ELSE DuplicatesInExpr(exprs[i]) + DuplicatesInExprs(exprs, i + 1)

DuplicatesInExpr(e) ==
    CASE e.k = "Function" -> DuplicatesInFunction(e)
      [] e.k \in {"Binary", "Logical"} -> DuplicatesInExpr(e.left) + DuplicatesInExpr(e.right)
      [] e.k = "Call" -> DuplicatesInExpr(e.callee) + DuplicatesInExprs(e.arguments, 1)
      [] e.k = "Grouping" -> DuplicatesInExpr(e.expression)
      [] e.k = "Unary" -> DuplicatesInExpr(e.right)
      [] e.k = "Get" -> DuplicatesInExpr(e.object)
      [] e.k = "Set" -> DuplicatesInExpr(e.object) + DuplicatesInExpr(e.value)
      [] e.k = "Assign" -> DuplicatesInExpr(e.value)
      [] e.k = "Ternery" ->
            DuplicatesInExpr(e.condition) + DuplicatesInExpr(e.then_expr) + DuplicatesInExpr(e.else_expr)
      [] OTHER -> 0

DuplicatesInList(stmts, i, scope) ==
    IF i > Len(stmts) THEN [scope |-> scope, n |-> 0]
    ELSE LET first == DuplicatesInStmt(stmts[i], scope)
             rest == DuplicatesInList(stmts, i + 1, first.scope)
         IN [scope |-> rest.scope, n |-> first.n + rest.n]

DuplicatesInStmt(stmt, scope) ==
    CASE stmt.k = "Var" -> Declared(scope, stmt.name, DuplicatesInExpr(stmt.initializer))
      [] stmt.k = "FunDef" -> Declared(scope, stmt.name, DuplicatesInFunction(stmt.function))
      [] stmt.k = "Class" ->
            Declared(scope, stmt.name,
                     DuplicatesInMethods(stmt.methods, 1) + DuplicatesInMethods(stmt.static_methods, 1))
      [] stmt.k = "Block" ->
            [scope |-> scope,
             n |-> DuplicatesInList(stmt.statements, 1, [local |-> TRUE, names |-> {}]).n]
      [] stmt.k = "If" ->
            LET then_branch == DuplicatesInStmt(stmt.then_branch, scope)
                else_branch == IF stmt.else_branch.k # "None"
                               THEN DuplicatesInStmt(stmt.else_branch, then_branch.scope)
                               ELSE [scope |-> then_branch.scope, n |-> 0]
            IN [scope |-> else_branch.scope,
                n |-> DuplicatesInExpr(stmt.condition) + then_branch.n + else_branch.n]
      [] stmt.k = "While" ->
            LET body == DuplicatesInStmt(stmt.body, scope)
            IN [scope |-> body.scope, n |-> DuplicatesInExpr(stmt.condition) + body.n]
      [] stmt.k \in {"Expression", "Print"} -> [scope |-> scope, n |-> DuplicatesInExpr(stmt.expression)]
      [] stmt.k = "Return" -> [scope |-> scope, n |-> DuplicatesInExpr(stmt.value)]
      [] OTHER -> [scope |-> scope, n |-> 0]

DuplicateDeclarations(program) ==
    DuplicatesInList(program, 1, [local |-> FALSE, names |-> {}]).n

DuplicateReports ==
    Cardinality({i \in DOMAIN error_reporter.reports :
                    /\ error_reporter.reports[i].typ = "Resolver"
                    /\ error_reporter.reports[i].message = "already a variable with this name in this scope"})

\* C10: the resolver reports a declaration exactly when its name is already
\* declared in the same local scope: once per such declaration, and never
\* for a name declared only in an enclosing scope or at top level.
C10_DuplicateDeclarationIsReported ==
    (path = "include" /\ history.executed = 0) =>
        DuplicateReports = DuplicateDeclarations(statements)

\* The resolver has gone over a program that repeats a declaration in one
\* scope and has reported it.
C10_Witness ==
    /\ path = "include"
    /\ history.executed = 0
    /\ DuplicateDeclarations(statements) > 0
    /\ DuplicateReports > 0

\* The names a resolver pass has to report as unused, read off the syntax
\* tree: one copy of a name for every local scope (a Block, or a function
\* with its parameters and body) that declares the name and contains no
\* reference (read or assignment target) that resolves to it.  A reference
\* resolves to the innermost enclosing scope that has declared the name when
\* the reference is reached; FreeIn... say that a node holds a reference to
\* `name` that resolves outside the node.
RECURSIVE FreeInExpr(_, _), FreeInExprs(_, _, _), FreeInStmt(_, _), FreeInStmts(_, _, _), FreeInMethods(_, _, _), UnusedInExpr(_), UnusedInExprs(_, _), UnusedInStmt(_), UnusedInStmts(_, _), UnusedInMethods(_, _)

Declares(stmt, name) == stmt.k \in {"Var", "FunDef", "Class"} /\ stmt.name = name

FreeInFunction(fun, name) ==
    /\ \A i \in DOMAIN fun.params : fun.params[i] # name
    /\ FreeInStmts(fun.body, 1, name)

FreeInMethods(methods, i, name) ==
    /\ i <= Len(methods)
    /\ FreeInFunction(methods[i].function, name) \/ FreeInMethods(methods, i + 1, name)

FreeInExprs(exprs, i, name) ==
    /\ i <= Len(exprs)
    /\ FreeInExpr(exprs[i], name) \/ FreeInExprs(exprs, i + 1, name)

FreeInExpr(e, name) ==
    CASE e.k = "Variable" -> e.name = name
      [] e.k = "Assign" -> e.name = name \/ FreeInExpr(e.value, name)
      [] e.k = "Function" -> FreeInFunction(e, name)
      [] e.k \in {"Binary", "Logical"} -> FreeInExpr(e.left, name) \/ FreeInExpr(e.right, name)
      [] e.k = "Call" -> FreeInExpr(e.callee, name) \/ FreeInExprs(e.arguments, 1, name)
      [] e.k = "Grouping" -> FreeInExpr(e.expression, name)
      [] e.k = "Unary" -> FreeInExpr(e.right, name)
      [] e.k = "Get" -> FreeInExpr(e.object, name)
      [] e.k = "Set" -> FreeInExpr(e.object, name) \/ FreeInExpr(e.value, name)
      [] e.k = "Ternery" ->
            FreeInExpr(e.condition, name) \/ FreeInExpr(e.then_expr, name) \/ FreeInExpr(e.else_expr, name)
      [] OTHER -> FALSE

FreeInStmt(stmt, name) ==
    CASE stmt.k = "Var" -> FreeInExpr(stmt.initializer, name)
      [] stmt.k = "FunDef" -> FreeInFunction(stmt.function, name)
      [] stmt.k = "Class" ->
            \/ FreeInExprs(stmt.superclasses, 1, name)
            \/ FreeInMethods(stmt.methods, 1, name)
            \/ FreeInMethods(stmt.static_methods, 1, name)
      [] stmt.k = "Block" -> FreeInStmts(stmt.statements, 1, name)
      [] stmt.k = "If" ->
            FreeInExpr(stmt.condition, name) \/ FreeInStmt(stmt.then_branch, name) \/ FreeInStmt(stmt.else_branch, name)
      [] stmt.k = "While" -> FreeInExpr(stmt.condition, name) \/ FreeInStmt(stmt.body, name)
      [] stmt.k \in {"Expression", "Print"} -> FreeInExpr(stmt.expression, name)
      [] stmt.k = "Return" -> FreeInExpr(stmt.value, name)
      [] OTHER -> FALSE

\* In a nested statement list a declaration of `name` captures the
\* references of its own statement and of the statements after it.
FreeInStmts(stmts, i, name) ==
    /\ i <= Len(stmts)
    /\ ~Declares(stmts[i], name)
    /\ FreeInStmt(stmts[i], name) \/ FreeInStmts(stmts, i + 1, name)

\* The names one scope declares and nothing refers to.
UnusedInScope(params, stmts) ==
    LET declaring(name) == {i \in DOMAIN stmts : Declares(stmts[i], name)}
        names == {params[i] : i \in DOMAIN params}
                 \cup {stmts[i].name : i \in {j \in DOMAIN stmts : stmts[j].k \in {"Var", "FunDef", "Class"}}}
        first(name) == IF name \in {params[i] : i \in DOMAIN params} THEN 1
                       ELSE CHOOSE i \in declaring(name) : \A j \in declaring(name) : i <= j
        used(name) == \E j \in first(name)..Len(stmts) : FreeInStmt(stmts[j], name)
    IN SetToBag({name \in names : ~used(name)})

UnusedInFunction(fun) == UnusedInScope(fun.params, fun.body) (+) UnusedInStmts(fun.body, 1)

UnusedInMethods(methods, i) ==
    IF i > Len(methods) THEN EmptyBag
    ELSE UnusedInFunction(methods[i].function) (+) UnusedInMethods(methods, i + 1)

UnusedInExprs(exprs, i) ==
    IF i > Len(exprs) THEN EmptyBag
    ELSE UnusedInExpr(exprs[i]) (+) UnusedInExprs(exprs, i + 1)

UnusedInExpr(e) ==
    CASE e.k = "Function" -> UnusedInFunction(e)
      [] e.k \in {"Binary", "Logical"} -> UnusedInExpr(e.left) (+) UnusedInExpr(e.right)
      [] e.k = "Call" -> UnusedInExpr(e.callee) (+) UnusedInExprs(e.arguments, 1)
      [] e.k = "Grouping" -> UnusedInExpr(e.expression)
      [] e.k = "Unary" -> UnusedInExpr(e.right)
      [] e.k = "Get" -> UnusedInExpr(e.object)
      [] e.k = "Set" -> UnusedInExpr(e.object) (+) UnusedInExpr(e.value)
      [] e.k = "Assign" -> UnusedInExpr(e.value)
      [] e.k = "Ternery" ->
            UnusedInExpr(e.condition) (+) UnusedInExpr(e.then_expr) (+) UnusedInExpr(e.else_expr)
      [] OTHER -> EmptyBag

UnusedInStmt(stmt) ==
    CASE stmt.k = "Var" -> UnusedInExpr(stmt.initializer)
      [] stmt.k = "FunDef" -> UnusedInFunction(stmt.function)
      [] stmt.k = "Class" ->
            UnusedInExprs(stmt.superclasses, 1)
            (+) UnusedInMethods(stmt.methods, 1) (+) UnusedInMethods(stmt.static_methods, 1)
      [] stmt.k = "Block" ->
            UnusedInScope(<<>>, stmt.statements) (+) UnusedInStmts(stmt.statements, 1)
      [] stmt.k = "If" ->
            UnusedInExpr(stmt.condition) (+) UnusedInStmt(stmt.then_branch) (+) UnusedInStmt(stmt.else_branch)
      [] stmt.k = "While" -> UnusedInExpr(stmt.condition) (+) UnusedInStmt(stmt.body)
      [] stmt.k \in {"Expression", "Print"} -> UnusedInExpr(stmt.expression)
      [] stmt.k = "Return" -> UnusedInExpr(stmt.value)
      [] OTHER -> EmptyBag

UnusedInStmts(stmts, i) ==
    IF i > Len(stmts) THEN EmptyBag
    ELSE UnusedInStmt(stmts[i]) (+) UnusedInStmts(stmts, i + 1)

UnusedLocals(program) == UnusedInStmts(program, 1)

\* The names the resolver reported as unused, with their multiplicities.
UnusedReports ==
    LET unused == {i \in DOMAIN error_reporter.reports :
                      /\ error_reporter.reports[i].typ = "Resolver"
                      /\ error_reporter.reports[i].message = "defined but never used"}
    IN [name \in {error_reporter.reports[i].name : i \in unused} |->
           Cardinality({i \in unused : error_reporter.reports[i].name = name})]

RECURSIVE ReadsInExpr(_, _), ReadsInExprs(_, _, _), ReadsInStmt(_, _), ReadsInStmts(_, _, _), ReadsInMethods(_, _, _), OwnReadsInExpr(_), OwnReadsInExprs(_, _), OwnReadsInStmt(_, _), OwnReadsInStmts(_, _, _), OwnReadsInMethods(_, _)

ReadsInFunction(fun, name) ==
    IF \E i \in DOMAIN fun.params : fun.params[i] = name THEN 0
    ELSE ReadsInStmts(fun.body, 1, name)

ReadsInMethods(methods, i, name) ==
    IF i > Len(methods) THEN 0
    ELSE ReadsInFunction(methods[i].function, name) + ReadsInMethods(methods, i + 1, name)

ReadsInExprs(exprs, i, name) ==
    IF i > Len(exprs) THEN 0
    ELSE ReadsInExpr(exprs[i], name) + ReadsInExprs(exprs, i + 1, name)

ReadsInExpr(e, name) ==
    CASE e.k = "Variable" -> IF e.name = name THEN 1 ELSE 0
      [] e.k = "Assign" -> ReadsInExpr(e.value, name)
      [] e.k = "Function" -> ReadsInFunction(e, name)
      [] e.k \in {"Binary", "Logical"} -> ReadsInExpr(e.left, name) + ReadsInExpr(e.right, name)
      [] e.k = "Call" -> ReadsInExpr(e.callee, name) + ReadsInExprs(e.arguments, 1, name)
      [] e.k = "Grouping" -> ReadsInExpr(e.expression, name)
      [] e.k = "Unary" -> ReadsInExpr(e.right, name)
      [] e.k = "Get" -> ReadsInExpr(e.object, name)
      [] e.k = "Set" -> ReadsInExpr(e.object, name) + ReadsInExpr(e.value, name)
      [] e.k = "Ternery" ->
            ReadsInExpr(e.condition, name) + ReadsInExpr(e.then_expr, name) + ReadsInExpr(e.else_expr, name)
      [] OTHER -> 0

ReadsInStmt(stmt, name) ==
    CASE stmt.k = "Var" -> ReadsInExpr(stmt.initializer, name)
      [] stmt.k = "FunDef" -> ReadsInFunction(stmt.function, name)
      [] stmt.k = "Class" ->
            ReadsInExprs(stmt.superclasses, 1, name)
            + ReadsInMethods(stmt.methods, 1, name) + ReadsInMethods(stmt.static_methods, 1, name)
      [] stmt.k = "Block" -> ReadsInStmts(stmt.statements, 1, name)
      [] stmt.k = "If" ->
            ReadsInExpr(stmt.condition, name) + ReadsInStmt(stmt.then_branch, name) + ReadsInStmt(stmt.else_branch, name)
      [] stmt.k = "While" -> ReadsInExpr(stmt.condition, name) + ReadsInStmt(stmt.body, name)
      [] stmt.k \in {"Expression", "Print"} -> ReadsInExpr(stmt.expression, name)
      [] stmt.k = "Return" -> ReadsInExpr(stmt.value, name)
      [] OTHER -> 0

ReadsInStmts(stmts, i, name) ==
    IF i > Len(stmts) \/ Declares(stmts[i], name) THEN 0
    ELSE ReadsInStmt(stmts[i], name) + ReadsInStmts(stmts, i + 1, name)

\* Number of reads of a local variable that stand in that variable's own
\* initializer, at any depth, counted over every `var` statement of a local
\* scope (`local`: the statement is inside a Block or a function body).
OwnReadsInFunction(fun) == OwnReadsInStmts(fun.body, 1, TRUE)

OwnReadsInMethods(methods, i) ==
    IF i > Len(methods) THEN 0
    ELSE OwnReadsInFunction(methods[i].function) + OwnReadsInMethods(methods, i + 1)

OwnReadsInExprs(exprs, i) ==
    IF i > Len(exprs) THEN 0
    ELSE OwnReadsInExpr(exprs[i]) + OwnReadsInExprs(exprs, i + 1)

OwnReadsInExpr(e) ==
    CASE e.k = "Function" -> OwnReadsInFunction(e)
      [] e.k \in {"Binary", "Logical"} -> OwnReadsInExpr(e.left) + OwnReadsInExpr(e.right)
      [] e.k = "Call" -> OwnReadsInExpr(e.callee) + OwnReadsInExprs(e.arguments, 1)
      [] e.k = "Grouping" -> OwnReadsInExpr(e.expression)
      [] e.k = "Unary" -> OwnReadsInExpr(e.right)
      [] e.k = "Get" -> OwnReadsInExpr(e.object)
      [] e.k = "Set" -> OwnReadsInExpr(e.object) + OwnReadsInExpr(e.value)
      [] e.k = "Assign" -> OwnReadsInExpr(e.value)
      [] e.k = "Ternery" ->
            OwnReadsInExpr(e.condition) + OwnReadsInExpr(e.then_expr) + OwnReadsInExpr(e.else_expr)
      [] OTHER -> 0

OwnReadsInStmt(stmt, local) ==
    CASE stmt.k = "Var" ->
            (IF local THEN ReadsInExpr(stmt.initializer, stmt.name) ELSE 0)
            + OwnReadsInExpr(stmt.initializer)
      [] stmt.k = "FunDef" -> OwnReadsInFunction(stmt.function)
      [] stmt.k = "Class" ->
            OwnReadsInExprs(stmt.superclasses, 1)
            + OwnReadsInMethods(stmt.methods, 1) + OwnReadsInMethods(stmt.static_methods, 1)
      [] stmt.k = "Block" -> OwnReadsInStmts(stmt.statements, 1, TRUE)
      [] stmt.k = "If" ->
            OwnReadsInExpr(stmt.condition) + OwnReadsInStmt(stmt.then_branch, local) + OwnReadsInStmt(stmt.else_branch, local)
      [] stmt.k = "While" -> OwnReadsInExpr(stmt.condition) + OwnReadsInStmt(stmt.body, local)
      [] stmt.k \in {"Expression", "Print"} -> OwnReadsInExpr(stmt.expression)
      [] stmt.k = "Return" -> OwnReadsInExpr(stmt.value)
      [] OTHER -> 0

OwnReadsInStmts(stmts, i, local) ==
    IF i > Len(stmts) THEN 0
    ELSE OwnReadsInStmt(stmts[i], local) + OwnReadsInStmts(stmts, i + 1, local)

OwnInitializerReads(program) == OwnReadsInStmts(program, 1, FALSE)

OwnInitializerReports ==
    Cardinality({i \in DOMAIN error_reporter.reports :
                    /\ error_reporter.reports[i].typ = "Resolver"
                    /\ error_reporter.reports[i].message = "Can't read local variable in its own initializer"})

\* C12: every read of a local variable inside that variable's own
\* initializer is reported by the resolver, whether it stands directly in
\* the initializer or inside a function literal or a call nested in it.
C12_ReadInOwnInitializerIsReported ==
    (path = "include" /\ history.executed = 0) =>
        OwnInitializerReports = OwnInitializerReads(statements)

\* The `this` expressions of a program, read off the syntax tree with the
\* kind of the innermost enclosing method ("none" outside every class,
\* "method" for an instance method or initializer, "static" for a static
\* method; a function literal or declaration inside a method body belongs to
\* that method): n counts those the resolver has to report, ids are the
\* node ids of the others.
RECURSIVE ThisInExpr(_, _), ThisInExprs(_, _, _), ThisInStmt(_, _), ThisInStmts(_, _, _), ThisInMethods(_, _, _)

NoThis == [n |-> 0, ids |-> {}]

ThisAnd(a, b) == [n |-> a.n + b.n, ids |-> a.ids \cup b.ids]

ThisInMethods(methods, i, method) ==
    IF i > Len(methods) THEN NoThis
    ELSE ThisAnd(ThisInStmts(methods[i].function.body, 1, method), ThisInMethods(methods, i + 1, method))

ThisInExprs(exprs, i, method) ==
    IF i > Len(exprs) THEN NoThis
    ELSE ThisAnd(ThisInExpr(exprs[i], method), ThisInExprs(exprs, i + 1, method))

ThisInExpr(e, method) ==
    CASE e.k = "This" -> IF method = "method" THEN [n |-> 0, ids |-> {e.id}] ELSE [n |-> 1, ids |-> {}]
      [] e.k = "Function" -> ThisInStmts(e.body, 1, method)
      [] e.k \in {"Binary", "Logical"} -> ThisAnd(ThisInExpr(e.left, method), ThisInExpr(e.right, method))
      [] e.k = "Call" -> ThisAnd(ThisInExpr(e.callee, method), ThisInExprs(e.arguments, 1, method))
      [] e.k = "Grouping" -> ThisInExpr(e.expression, method)
      [] e.k = "Unary" -> ThisInExpr(e.right, method)
      [] e.k = "Get" -> ThisInExpr(e.object, method)
      [] e.k = "Set" -> ThisAnd(ThisInExpr(e.object, method), ThisInExpr(e.value, method))
      [] e.k = "Assign" -> ThisInExpr(e.value, method)
      [] e.k = "Ternery" ->
            ThisAnd(ThisInExpr(e.condition, method),
                    ThisAnd(ThisInExpr(e.then_expr, method), ThisInExpr(e.else_expr, method)))
      [] OTHER -> NoThis

ThisInStmt(stmt, method) ==
    CASE stmt.k = "Var" -> ThisInExpr(stmt.initializer, method)
      [] stmt.k = "FunDef" -> ThisInStmts(stmt.function.body, 1, method)
      [] stmt.k = "Class" ->
            ThisAnd(ThisInExprs(stmt.superclasses, 1, method),
                    ThisAnd(ThisInMethods(stmt.methods, 1, "method"),
                            ThisInMethods(stmt.static_methods, 1, "static")))
      [] stmt.k = "Block" -> ThisInStmts(stmt.statements, 1, method)
      [] stmt.k = "If" ->
            ThisAnd(ThisInExpr(stmt.condition, method),
                    ThisAnd(ThisInStmt(stmt.then_branch, method), ThisInStmt(stmt.else_branch, method)))
      [] stmt.k = "While" -> ThisAnd(ThisInExpr(stmt.condition, method), ThisInStmt(stmt.body, method))
      [] stmt.k \in {"Expression", "Print"} -> ThisInExpr(stmt.expression, method)
      [] stmt.k = "Return" -> ThisInExpr(stmt.value, method)
      [] OTHER -> NoThis

ThisInStmts(stmts, i, method) ==
    IF i > Len(stmts) THEN NoThis
    ELSE ThisAnd(ThisInStmt(stmts[i], method), ThisInStmts(stmts, i + 1, method))

ThisExpressions(program) == ThisInStmts(program, 1, "none")

ThisReports ==
    Cardinality({i \in DOMAIN error_reporter.reports :
                    /\ error_reporter.reports[i].typ = "Resolver"
                    /\ error_reporter.reports[i].name = "this"})

RECURSIVE SearchOrder(_, _), SearchOrderOf(_, _, _)

SearchOrderOf(objects, superclasses, i) ==
    IF i > Len(superclasses) THEN <<>>
    ELSE SearchOrder(objects, superclasses[i].oid) \o SearchOrderOf(objects, superclasses, i + 1)

SearchOrder(objects, oid) == <<oid>> \o SearchOrderOf(objects, objects[oid].superclasses, 1)

\* The first class in search order whose table (methods or fields) holds
\* the name, 0 if none does.
FirstHolding(objects, oid, table, name) ==
    LET order == SearchOrder(objects, oid)
        holding == {i \in DOMAIN order : name \in DOMAIN objects[order[i]][table]}
    IN IF holding = {} THEN 0
       ELSE order[CHOOSE i \in holding : \A j \in holding : i <= j]

\* C16: find_method yields the class's own method of that name if it has
\* one, else the first match among the superclasses searched in declared
\* order, each with its own superclasses before the next, and None only if
\* no reachable class defines the name.
C16_FindMethodFirstMatchInDeclaredOrder ==
    \A e \in LogEvents({"find_method"}) :
        LET holder == FirstHolding(interpreter.objects, e.klass, "methods", e.name)
        IN IF holder = 0 THEN e.v = NilV
           ELSE e.v = interpreter.objects[holder].methods[e.name]

\* find_method on a class without the method whose two superclasses both
\* define it has returned the method of the superclass declared first.
C16_Witness ==
    \E e \in LogEvents({"find_method"}) :
        LET klass == interpreter.objects[e.klass]
        IN /\ e.name \notin DOMAIN klass.methods
           /\ Len(klass.superclasses) = 2
           /\ \A i \in 1..2 : e.name \in DOMAIN interpreter.objects[klass.superclasses[i].oid].methods
           /\ e.v = interpreter.objects[klass.superclasses[1].oid].methods[e.name]

RECURSIVE SuperInExpr(_, _), SuperInExprs(_, _, _), SuperInStmt(_, _), SuperInStmts(_, _, _), SuperInMethods(_, _, _)

SuperInMethods(methods, i, class) ==
    IF i > Len(methods) THEN 0
    ELSE SuperInStmts(methods[i].function.body, 1, class) + SuperInMethods(methods, i + 1, class)

SuperInExprs(exprs, i, class) ==
    IF i > Len(exprs) THEN 0
    ELSE SuperInExpr(exprs[i], class) + SuperInExprs(exprs, i + 1, class)

SuperInExpr(e, class) ==
    CASE e.k = "Super" ->
            IF class.subclass /\ (e.superclass = "" \/ e.superclass \in class.supers) THEN 0 ELSE 1
      [] e.k = "Function" -> SuperInStmts(e.body, 1, class)
      [] e.k \in {"Binary", "Logical"} -> SuperInExpr(e.left, class) + SuperInExpr(e.right, class)
      [] e.k = "Call" -> SuperInExpr(e.callee, class) + SuperInExprs(e.arguments, 1, class)
      [] e.k = "Grouping" -> SuperInExpr(e.expression, class)
      [] e.k = "Unary" -> SuperInExpr(e.right, class)
      [] e.k = "Get" -> SuperInExpr(e.object, class)
      [] e.k = "Set" -> SuperInExpr(e.object, class) + SuperInExpr(e.value, class)
      [] e.k = "Assign" -> SuperInExpr(e.value, class)
      [] e.k = "Ternery" ->
            SuperInExpr(e.condition, class) + SuperInExpr(e.then_expr, class) + SuperInExpr(e.else_expr, class)
      [] OTHER -> 0

SuperInStmt(stmt, class) ==
    CASE stmt.k = "Var" -> SuperInExpr(stmt.initializer, class)
      [] stmt.k = "FunDef" -> SuperInStmts(stmt.function.body, 1, class)
      [] stmt.k = "Class" ->
            LET own == [subclass |-> Len(stmt.superclasses) > 0,
                        supers |-> {stmt.superclasses[i].name : i \in DOMAIN stmt.superclasses}]
            IN SuperInExprs(stmt.superclasses, 1, class)
               + SuperInMethods(stmt.methods, 1, own) + SuperInMethods(stmt.static_methods, 1, own)
      [] stmt.k = "Block" -> SuperInStmts(stmt.statements, 1, class)
      [] stmt.k = "If" ->
            SuperInExpr(stmt.condition, class) + SuperInStmt(stmt.then_branch, class) + SuperInStmt(stmt.else_branch, class)
      [] stmt.k = "While" -> SuperInExpr(stmt.condition, class) + SuperInStmt(stmt.body, class)
      [] stmt.k \in {"Expression", "Print"} -> SuperInExpr(stmt.expression, class)
      [] stmt.k = "Return" -> SuperInExpr(stmt.value, class)
      [] OTHER -> 0

SuperInStmts(stmts, i, class) ==
    IF i > Len(stmts) THEN 0
    ELSE SuperInStmt(stmts[i], class) + SuperInStmts(stmts, i + 1, class)

UnresolvableSupers(program) == SuperInStmts(program, 1, [subclass |-> FALSE, supers |-> {}])

SuperReports ==
    Cardinality({i \in DOMAIN error_reporter.reports :
                    /\ error_reporter.reports[i].typ = "Resolver"
                    /\ error_reporter.reports[i].name = "super"})

C19_StaticAccessOnAClass ==
    /\ \A e \in LogEvents({"get"}) :
          LET holder == FirstHolding(interpreter.objects, e.klass, "fields", e.name)
          IN IF holder = 0 THEN e.sig = "error"
             ELSE e.sig = "ok" /\ e.v = interpreter.objects[holder].fields[e.name]
    /\ \A e \in LogEvents({"set"}) :
          e.sig = "error" /\ e.after = e.before /\ interpreter.objects = e.before

\* `Class.m` on a class that has an instance method m but no static m, and
\* two superclasses that both declare a static m, has yielded the static
\* method of the superclass declared first.
C19_Witness ==
    \E e \in LogEvents({"get"}) :
        LET klass == interpreter.objects[e.klass]
        IN /\ e.name \notin DOMAIN klass.fields
           /\ e.name \in DOMAIN klass.methods
           /\ Len(klass.superclasses) = 2
           /\ \A i \in 1..2 : e.name \in DOMAIN interpreter.objects[klass.superclasses[i].oid].fields
           /\ e.sig = "ok"
           /\ e.v = interpreter.objects[klass.superclasses[1].oid].fields[e.name]

\* C20: instantiation yields the freshly allocated instance, distinct from
\* every earlier one, whether init executes a return or falls off its end:
\* program 42 prints False for A() == A(), False for B() == nil, then done.
C20_InstantiationYieldsTheNewInstance ==
    (statements = Programs[42] /\ pc \in {"returned", "crashed"}) =>
        /\ pc = "returned"
        /\ ~error_reporter.had_runtime_error
        /\ Len(out) >= 3
        /\ SubSeq(out, Len(out) - 2, Len(out)) = <<"False", "False", "done">>

\* ------------------------------------------------------------------------
\* C21: `instance.name` yields the instance's own field of that name if it
\* has one (also when its class has a method of that name), else the method
\* find_method finds, bound to this instance, else it raises the runtime
\* error for an undefined property, and changes no object; `instance.name =
\* value` never fails, yields the value, and changes exactly that field of
\* exactly that instance.
\* ------------------------------------------------------------------------
\* The function value is method bound to instance: same declaration, in a
\* new frame over the method's closure that holds the instance.
IsBoundTo(value, method, instance) ==
    /\ value.t = "fun"
    /\ value.declaration = method.declaration
    /\ value.is_initializer = method.is_initializer
    /\ value.closure \in DOMAIN interpreter.heap
    /\ interpreter.heap[value.closure].enclosing = method.closure
    /\ \E name \in DOMAIN interpreter.heap[value.closure].values :
          interpreter.heap[value.closure].values[name] = instance

C21_OwnFieldFirst ==
    \A e \in LogEvents({"get_property"}) :
        e.name \in DOMAIN e.before[e.instance.oid].fields =>
            e.sig = "ok" /\ e.v = e.before[e.instance.oid].fields[e.name] /\ interpreter.objects = e.before

C21_UndefinedPropertyRaises ==
    \A e \in LogEvents({"get_property"}) :
        (/\ e.name \notin DOMAIN e.before[e.instance.oid].fields
         /\ FirstHolding(e.before, e.before[e.instance.oid].klass.oid, "methods", e.name) = 0) =>
            e.sig = "error" /\ e.v = "Undefined property" /\ interpreter.objects = e.before

C21_MethodIsBound ==
    \A e \in LogEvents({"get_property"}) :
        LET holder == FirstHolding(e.before, e.before[e.instance.oid].klass.oid, "methods", e.name)
        IN (e.name \notin DOMAIN e.before[e.instance.oid].fields /\ holder # 0) =>
              /\ e.sig = "ok"
              /\ IsBoundTo(e.v, e.before[holder].methods[e.name], e.instance)
              /\ interpreter.objects = e.before

C21_SetChangesOneField ==
    \A e \in LogEvents({"set_property"}) :
        /\ e.sig = "ok"
        /\ e.v = e.value
        /\ interpreter.objects =
              [e.before EXCEPT ![e.instance.oid].fields = (e.name :> e.value) @@ @]

C21_InstanceGetAndSet ==
    /\ C21_OwnFieldFirst
    /\ C21_UndefinedPropertyRaises
    /\ C21_MethodIsBound
    /\ C21_SetChangesOneField

\* ------------------------------------------------------------------------
\* C22: `==` and `!=` never coerce: values of different runtime types are
\* never equal (1 == true, 0 == false and nil == false are false), values
\* of the same type are equal exactly if they are the same value, and `!=`
\* yields the negation of `==`.
\* ------------------------------------------------------------------------
RuntimeType(value) ==
    CASE value.t \in {"fun", "native"} -> "function"
      [] value.t = "class" -> "class"
      [] OTHER -> value.t

ValueEqual(left, right) == RuntimeType(left) = RuntimeType(right) /\ left = right

C22_EqualityWithoutCoercion ==
    \A e \in LogEvents({"binary"}) :
        /\ e.operator = "==" => e.sig = "ok" /\ e.v = BoolV(ValueEqual(e.left, e.right))
        /\ e.operator = "!=" => e.sig = "ok" /\ e.v = BoolV(~ValueEqual(e.left, e.right))

\* ------------------------------------------------------------------------
\* C23: `+` yields the sum of two numbers, the concatenation of two
\* strings, and for a number and a string the concatenation with the number
\* in its printed form; every other pair of operands raises a runtime
\* error.  `-`, `*`, `/`, `<`, `<=`, `>`, `>=` raise a runtime error unless
\* both operands are numbers, unary `-` unless its operand is a number, and
\* they yield a value when the operands are numbers (a zero divisor aside).
\* ------------------------------------------------------------------------
Printed(value) == StrV(stringify(value))

C23_Plus ==
    \A e \in LogEvents({"binary"}) :
        e.operator = "+" =>
            CASE e.left.t = "num" /\ e.right.t = "num" ->
                    e.sig = "ok" /\ e.v.t = "num" /\ e.v.d = 1 /\ e.v.v = e.left.v + e.right.v
              [] e.left.t = "str" /\ e.right.t = "str" ->
                    e.sig = "ok" /\ e.v = StrV(e.left.v \o e.right.v)
              [] e.left.t = "num" /\ e.right.t = "str" ->
                    e.sig = "ok" /\ e.v = StrV(Printed(e.left).v \o e.right.v)
              [] e.left.t = "str" /\ e.right.t = "num" ->
                    e.sig = "ok" /\ e.v = StrV(e.left.v \o Printed(e.right).v)
              [] OTHER -> e.sig = "error"

C23_NumberOperators ==
    \A e \in LogEvents({"binary"}) :
        e.operator \in {"-", "*", "/", "<", "<=", ">", ">="} =>
            IF e.left.t = "num" /\ e.right.t = "num"
            THEN e.sig = "ok" \/ (e.operator = "/" /\ e.right.v = 0)
            ELSE e.sig = "error"

C23_UnaryMinus ==
    \A e \in LogEvents({"unary"}) :
        e.operator = "-" =>
            IF e.right.t = "num"
            THEN e.sig = "ok" /\ e.v.t = "num" /\ e.v.v + e.right.v = 0 /\ e.v.d = e.right.d
            ELSE e.sig = "error"

C23_OperandTypesAreChecked ==
    /\ C23_Plus
    /\ C23_NumberOperators
    /\ C23_UnaryMinus

\* `1 + true` has raised the runtime error of `+`.
C23_Witness ==
    \E e \in LogEvents({"binary"}) :
        /\ e.operator = "+" /\ e.left = NumV(1) /\ e.right = BoolV(TRUE)
        /\ e.sig = "error"
        /\ e.v = "Both operands have to be strings or numbers."

\* ------------------------------------------------------------------------
\* C24: for numbers a and b, `a / b` raises a runtime error if b is zero,
\* whatever a is, and yields neither infinity nor an exception of the host
\* language; if b is not zero it yields the quotient q, the number with
\* q * b = a, so 0 / 1 is 0.
\* ------------------------------------------------------------------------
C24_DivisionByZeroIsARuntimeError ==
    \A e \in LogEvents({"binary"}) :
        (e.operator = "/" /\ e.left.t = "num" /\ e.right.t = "num") =>
            IF e.right.v = 0
            THEN e.sig = "error" /\ e.v = "Do not divide by zero!"
            ELSE /\ e.sig = "ok"
                 /\ e.v.t = "num"
                 /\ e.v.d > 0
                 /\ e.v.v * e.right.v * e.left.d = e.left.v * e.v.d * e.right.d
                 /\ e.left.v = 0 => e.v = NumV(0)

\* 0 / 0 has raised the runtime error.
C24_Witness ==
    \E e \in LogEvents({"binary"}) :
        e.operator = "/" /\ e.left = NumV(0) /\ e.right = NumV(0) /\ e.sig = "error"

\* ------------------------------------------------------------------------
\* C25: a call evaluates the callee, then every argument once from left to
\* right, then raises a runtime error if the callee is not callable, else
\* one naming the expected and the actual count unless the number of
\* arguments is the callee's arity; the body is entered only after both
\* tests, with the parameters bound to the arguments by position.
\* ------------------------------------------------------------------------
\* The frame that binds params[i] to arguments[i] for every i, in order.
RECURSIVE PositionalFrame(_, _, _)
PositionalFrame(params, arguments, i) ==
    IF i = 0 THEN EmptyFcn
    ELSE (params[i] :> arguments[i]) @@ PositionalFrame(params, arguments, i - 1)

\* The first run of a session has ended after taking program p on the run path.
FirstRunOf(p) == runs = 1 /\ path = "run" /\ pc \in {"returned", "crashed"} /\ statements = Programs[p]

RuntimeReports == SelectSeq(error_reporter.reports, LAMBDA report : report.typ = "Runtime")

C25_CallProtocol ==
    /\ \A i \in DOMAIN history.log :
          LET e == history.log[i]
          IN e.ev = "call" =>
                /\ Len(e.arguments) = Len(e.params)
                /\ e.frame = PositionalFrame(e.params, e.arguments, Len(e.params))
    /\ FirstRunOf(43) =>
          /\ pc = "returned"
          /\ out = <<"callee", "a1", "a2", "body", "end">>
          /\ RuntimeReports = <<>>
          /\ \E e \in LogEvents({"call"}) : e.frame = ("x" :> NumV(1)) @@ ("y" :> NumV(2))
    /\ FirstRunOf(44) =>
          /\ pc = "returned"
          /\ out = <<"a1", "a2", "a1">>
          /\ Len(RuntimeReports) = 1
          /\ RuntimeReports[1].message = "Expected 2 arguments, but got 3."
    /\ FirstRunOf(45) =>
          /\ pc = "returned"
          /\ out = <<"a1", "a2">>
          /\ Len(RuntimeReports) = 1
          /\ RuntimeReports[1].message = "Can only call functions and classes."
    /\ FirstRunOf(46) =>
          /\ pc = "returned"
          /\ out = <<"a1", "a2">>
          /\ Len(RuntimeReports) = 1
          /\ RuntimeReports[1].message = "Expected 1 arguments, but got 2."

\* The call g(a1(), a2(), a1()) of a function of two parameters has evaluated
\* its three arguments in order and has been rejected before the body ran.
C25_Witness ==
    /\ FirstRunOf(44)
    /\ out = <<"a1", "a2", "a1">>
    /\ error_reporter.had_runtime_error

\* ------------------------------------------------------------------------
\* C26: `or` evaluates its right operand only if the left one is falsy,
\* `and` only if it is truthy, and the ternary evaluates exactly the branch
\* its condition selects; the other side is not evaluated, so neither its
\* output nor its error occurs.  nil and false are falsy, every other value
\* is truthy.
\* ------------------------------------------------------------------------
Truthy(value) == value # NilV /\ value # BoolV(FALSE)

\* The right operand and one branch of the ternary are the call f(), which
\* prints one line and yields "r"; the other branch is -nil, which raises.
C26_ShortCircuit ==
    /\ \A e \in LogEvents({"logical"}) :
          IF (e.operator = "or") = Truthy(e.left)
          THEN e.sig = "ok" /\ e.v = e.left /\ e.printed = 0
          ELSE e.sig = "ok" /\ e.v = StrV("r") /\ e.printed = 1
    /\ \A e \in LogEvents({"ternery"}) :
          IF Truthy(e.condition) # e.flipped
          THEN e.sig = "ok" /\ e.v = StrV("r") /\ e.printed = 1
          ELSE e.sig = "error" /\ e.v = "Operand must be a number." /\ e.printed = 0

\* `0 or f()` has yielded 0 without calling f.
C26_Witness ==
    \E e \in LogEvents({"logical"}) :
        e.operator = "or" /\ e.left = NumV(0) /\ e.sig = "ok" /\ e.v = NumV(0) /\ e.printed = 0

\* ------------------------------------------------------------------------
\* C27: a report does not end the resolver pass: every statement and
\* expression of the program is visited, whatever was reported before it; a
\* program with four independent violations yields four reports in one
\* pass, and the references after them are bound.
\* ------------------------------------------------------------------------
\* The number of nodes resolve_stmt and resolve_expr are due to visit.
RECURSIVE VisitsInExprs(_, _), VisitsInExpr(_), VisitsInStmt(_), VisitsInStmts(_, _), VisitsInMethods(_, _)
VisitsInExprs(exprs, i) ==
    IF i > Len(exprs) THEN 0 ELSE VisitsInExpr(exprs[i]) + VisitsInExprs(exprs, i + 1)

VisitsInMethods(methods, i) ==
    IF i > Len(methods) THEN 0
    ELSE VisitsInStmts(methods[i].function.body, 1) + VisitsInMethods(methods, i + 1)

VisitsInExpr(e) ==
    1 + CASE e.k \in {"Literal", "Variable", "This", "Super"} -> 0
          [] e.k = "Assign" -> VisitsInExpr(e.value)
          [] e.k \in {"Binary", "Logical"} -> VisitsInExpr(e.left) + VisitsInExpr(e.right)
          [] e.k = "Unary" -> VisitsInExpr(e.right)
          [] e.k = "Grouping" -> VisitsInExpr(e.expression)
          [] e.k = "Ternery" -> VisitsInExpr(e.condition) + VisitsInExpr(e.then_expr) + VisitsInExpr(e.else_expr)
          [] e.k = "Call" -> VisitsInExpr(e.callee) + VisitsInExprs(e.arguments, 1)
          [] e.k = "Function" -> VisitsInStmts(e.body, 1)
          [] e.k = "Get" -> VisitsInExpr(e.object)
          [] e.k = "Set" -> VisitsInExpr(e.object) + VisitsInExpr(e.value)

VisitsInStmt(stmt) ==
    1 + CASE stmt.k = "Break" -> 0
          [] stmt.k \in {"Expression", "Print"} -> VisitsInExpr(stmt.expression)
          [] stmt.k = "If" ->
                VisitsInExpr(stmt.condition) + VisitsInStmt(stmt.then_branch)
                + (IF stmt.else_branch.k = "None" THEN 0 ELSE VisitsInStmt(stmt.else_branch))
          [] stmt.k = "While" -> VisitsInExpr(stmt.condition) + VisitsInStmt(stmt.body)
          [] stmt.k = "FunDef" -> VisitsInExpr(stmt.function)
          [] stmt.k = "Var" -> IF stmt.initializer.k = "None" THEN 0 ELSE VisitsInExpr(stmt.initializer)
          [] stmt.k = "Block" -> VisitsInStmts(stmt.statements, 1)
          [] stmt.k = "Return" -> IF stmt.value.k = "None" THEN 0 ELSE VisitsInExpr(stmt.value)
          [] stmt.k = "Class" ->
                VisitsInExprs(stmt.superclasses, 1) + VisitsInMethods(stmt.methods, 1)
                + VisitsInMethods(stmt.static_methods, 1)

VisitsInStmts(stmts, i) ==
    IF i > Len(stmts) THEN 0 ELSE VisitsInStmt(stmts[i]) + VisitsInStmts(stmts, i + 1)

Visits == Cardinality({i \in DOMAIN history.log : history.log[i].ev = "resolved"})

ResolverReports == SelectSeq(error_reporter.reports, LAMBDA report : report.typ = "Resolver")

\* The nodes of the program just resolved that have a binding.
BoundNodes == {key[2] : key \in {k \in DOMAIN interpreter.local_definitions : k[1] = interpreter.unit}}

C27_ReportsDoNotEndThePass ==
    (path = "include" /\ history.executed = 0) =>
        /\ Visits = VisitsInStmts(statements, 1)
        /\ statements = Programs[47] =>
              /\ [i \in DOMAIN ResolverReports |-> ResolverReports[i].name] = <<"a", "this", "u", "b">>
              /\ BoundNodes = {1, 3, 4, 5}

\* Program 47 has been resolved: four reports, and a node was visited
\* after the fourth.
C27_Witness ==
    /\ path = "include" /\ history.executed = 0 /\ statements = Programs[47]
    /\ Len(ResolverReports) = 4
    /\ \E e \in LogEvents({"resolved"}) : e.reports = 4

\* ------------------------------------------------------------------------
\* C28: reading a variable that was declared without an initializer and not
\* assigned since raises the runtime error "Uninitialized variable", for a
\* local variable as for a global one, and no variable read yields the
\* uninitialized marker as its value.
\* ------------------------------------------------------------------------
ReadsUninitialized(e) == e.denoted.scope # "none" /\ e.denoted.value = UNINITIALIZED

C28_UninitializedReadRaises ==
    \A e \in LogEvents({"lookup"}) :
        /\ ReadsUninitialized(e) => e.sig = "error" /\ e.v = "Uninitialized variable"
        /\ e.sig = "ok" => e.v # UNINITIALIZED

\* The part that holds: the claim for global variables.
C28_GlobalUninitializedReadRaises ==
    \A e \in LogEvents({"lookup"}) :
        /\ (ReadsUninitialized(e) /\ e.denoted.scope = "global") =>
              e.sig = "error" /\ e.v = "Uninitialized variable"
        /\ e.sig = "ok" => e.v # UNINITIALIZED

C28_GlobalWitness ==
    /\ statements = Programs[48] /\ pc = "returned"
    /\ \E e \in LogEvents({"lookup"}) : ReadsUninitialized(e) /\ e.denoted.scope = "global"
    /\ error_reporter.had_runtime_error

\* ------------------------------------------------------------------------
\* C29: an assignment to a name that is bound to no local and is not in the
\* global table raises "Undefined variable" and leaves the global table as
\* it was; an assignment to an existing global or local variable changes
\* that variable and no other, and the assignment expression has the
\* assigned value.
\* ------------------------------------------------------------------------
\* The log entry that follows entry i is the result of the assignment
\* expression, and it is the value given.
YieldsAssigned(i) ==
    /\ i + 1 \in DOMAIN history.log
    /\ history.log[i + 1].ev = "assigned"
    /\ history.log[i + 1].id = history.log[i].id
    /\ history.log[i + 1].v = history.log[i].value

AssignsUndefined(e) == ~e.local /\ e.name \notin DOMAIN e.before.globals

UndefinedAssignmentRaises(e) ==
    e.sig = "error" /\ e.v = "Undefined variable" /\ e.after = e.before

GlobalAssigned(e) ==
    /\ e.sig = "ok"
    /\ e.after.globals = (e.name :> e.value) @@ e.before.globals
    /\ e.after.frames = e.before.frames

LocalAssigned(e) ==
    /\ e.sig = "ok"
    /\ e.after.globals = e.before.globals
    /\ e.after.frames = [e.before.frames EXCEPT ![e.denoted.env] = (e.name :> e.value) @@ @]

\* Assignment expressions only (a class statement also assigns its name).
AssignExprs == {i \in DOMAIN history.log : history.log[i].ev = "assign"
                                           /\ history.log[i].k = "Assign"}

C29_AssignmentChangesOneVariable ==
    \A i \in AssignExprs :
        LET e == history.log[i]
        IN /\ AssignsUndefined(e) => UndefinedAssignmentRaises(e)
           /\ e.denoted.scope = "global" => GlobalAssigned(e) /\ YieldsAssigned(i)
           /\ e.denoted.scope = "local" => LocalAssigned(e) /\ YieldsAssigned(i)

\* The parts that hold: undefined names and global variables.
C29_GlobalAssignment ==
    \A i \in AssignExprs :
        LET e == history.log[i]
        IN /\ AssignsUndefined(e) => UndefinedAssignmentRaises(e)
           /\ e.denoted.scope = "global" => GlobalAssigned(e) /\ YieldsAssigned(i)

C29_GlobalWitness ==
    /\ statements = Programs[51] /\ pc = "returned"
    /\ out = <<"3.0", "3.0", "2.0">>
    /\ \E i \in AssignExprs : history.log[i].denoted.scope = "global" /\ history.log[i].value = NumV(3)

C29_UndefinedWitness ==
    /\ statements = Programs[50] /\ pc = "returned" /\ out = <<>>
    /\ \E i \in AssignExprs : AssignsUndefined(history.log[i]) /\ history.log[i].name = "zz"
    /\ "zz" \notin DOMAIN interpreter.global_environment

\* ------------------------------------------------------------------------
\* C30: the resolver's bookkeeping is balanced: resolving a statement or an
\* expression, with or without reports, leaves the scope stack at the same
\* depth and with the same contents, but for the names the statement
\* declared in the scope that was innermost, and leaves current_function
\* and current_class as they were; after a whole program the stack is empty
\* and both are NONE.
\* ------------------------------------------------------------------------
\* The entries of level i of a scope stack that a visit of e's node must keep.
Kept(e, scopes, i) ==
    LET declared == IF i = Len(e.before.scopes) THEN e.declares ELSE {}
    IN SelectSeq(scopes[i], LAMBDA vs : vs.name \notin declared)

FlagsRestored(e) ==
    /\ Len(e.after.scopes) = Len(e.before.scopes)
    /\ e.after.current_function = e.before.current_function
    /\ e.after.current_class = e.before.current_class

PassIsClosed ==
    \A e \in LogEvents({"pass"}) :
        e.after = [scopes |-> <<>>, current_class |-> "NONE", current_function |-> "NONE"]

\* The claim as stated: the entries kept are what they were.
C30_BookkeepingUnchanged ==
    /\ \A e \in LogEvents({"resolved"}) :
          /\ FlagsRestored(e)
          /\ \A i \in 1..Len(e.before.scopes) : Kept(e, e.after.scopes, i) = Kept(e, e.before.scopes, i)
    /\ PassIsClosed

\* An entry is what it was, or what it was marked as used.
SameOrUsed(before, after) == after = before \/ after = [before EXCEPT !.used = TRUE]

\* Amended: the entries kept are the same names with the same slot and
\* defined flag; a used flag may have turned true.
C30_BookkeepingBalanced ==
    /\ \A e \in LogEvents({"resolved"}) :
          /\ FlagsRestored(e)
          /\ \A i \in 1..Len(e.before.scopes) :
                LET before == Kept(e, e.before.scopes, i)
                    after == Kept(e, e.after.scopes, i)
                IN /\ Len(after) = Len(before)
                   /\ \A j \in 1..Len(before) : SameOrUsed(before[j], after[j])
    /\ PassIsClosed

\* A pass over program 47 (four reports) is complete, and in it a statement
\* inside a scope marked a variable it did not declare as used.
C30_Witness ==
    /\ path = "include" /\ history.executed = 0 /\ statements = Programs[47]
    /\ LogEvents({"pass"}) # {}
    /\ \E e \in LogEvents({"resolved"}) :
          /\ e.k = "Print" /\ e.reports > 0
          /\ \E i \in 1..Len(e.before.scopes) : Kept(e, e.after.scopes, i) # Kept(e, e.before.scopes, i)
====
